---- MODULE Spec2Model ----
(***************************************************************************)
(* A model of the StudyChat server: the relational tables of               *)
(* shared/schema.ts, the DatabaseStorage operations of server/storage.ts   *)
(* (both the string-keyed and the integer-keyed variant the file holds),   *)
(* the route handlers of server/routes.ts and the content-generation       *)
(* adapter of server/openai.ts.                                            *)
(*                                                                         *)
(* A route handler is an async function: it runs to its next await in one  *)
(* step, and the handlers of other requests run between its awaits.  Each  *)
(* database statement is one atomic step; nothing in storage.ts opens a    *)
(* transaction.                                                            *)
(***************************************************************************)
EXTENDS Integers, Sequences, FiniteSets, TLC

\* The total number of requests (or direct storage calls) one behaviour starts.
MaxRequests == 3

\* Session users (req.user.claims.sub) and the channels they post to.
Users == {"u1", "u2"}
ChannelIds == {1, 2}

\* SQL NULL / a JavaScript null or undefined, for a user id.
Null == "null"

\* A body without channelId (!channelId also holds of 0), and the result of a
\* select that found no row.
NoChannel == 0
NoRow == [id |-> 0]

VARIABLES
    variant,        \* which DatabaseStorage of storage.ts is deployed
    now,            \* the database clock (defaultNow(), new Date())
    reqSeq,         \* requests started so far
    last,           \* the response of the handler that finished last
    workspaces,     \* table workspaces
    workspaceMembers, \* table workspace_members
    wsSeq,          \* serial of workspaces.id
    memberSeq,      \* serial of workspace_members.id
    wsReqs,         \* POST /api/workspaces handlers waiting at an await
    isDemo,         \* openai.ts: no OPENAI_API_KEY (or "demo_key") at start
    aiCall,         \* the generation function called last, with its inputs
    aiResult,       \* what that call returned or threw
    serviceCalls,   \* calls of openai.chat.completions.create so far
    messages,       \* table messages
    msgSeq,         \* serial of messages.id
    studyProgress,  \* table study_progress
    progSeq,        \* serial of study_progress.id
    prReqs,         \* generate-article handlers and updateStudyProgress calls at an await
    callLog,        \* the updateStudyProgress calls that returned, in order
    quizReqs,       \* POST /api/ai/generate-quiz handlers awaiting generateQuiz
    bookmarks,      \* table bookmarks
    bookmarkSeq,    \* serial of bookmarks.id
    bookmarkedUi,   \* the (user, message) MessageItems whose bookmarked state is true
    threads,        \* table threads
    threadSeq,      \* serial of threads.id
    thrReqs,        \* POST /api/ai/thread-response handlers awaiting generateThreadResponse
    channels,       \* table channels
    chanSeq,        \* serial of channels.id
    users,          \* table users
    userSeq,        \* serial of users.id
    sidebar,        \* ThreadSidebar: the requests handleSendReply sent and their threads
    home,           \* the state of the Home page
    chat            \* the state of ChatArea and its mutations

wsVars == <<workspaces, workspaceMembers, wsSeq, memberSeq, wsReqs>>
aiVars == <<aiCall, aiResult, serviceCalls>>
msgVars == <<messages, msgSeq>>
prVars == <<studyProgress, progSeq, prReqs, callLog>>
bmVars == <<bookmarks, bookmarkSeq, bookmarkedUi>>
thVars == <<threads, threadSeq, thrReqs>>
cnVars == <<channels, chanSeq>>
usVars == <<users, userSeq>>
clVars == <<home, chat>>

vars == <<variant, isDemo, now, reqSeq, last, wsVars, aiVars, msgVars, prVars,
          quizReqs, bmVars, thVars, cnVars, usVars, sidebar, clVars>>

\* The two implementations of DatabaseStorage in storage.ts.
Variants == {"string", "integer"}

NoResponse == [op |-> "none", status |-> 0]
NoCall == [fn |-> "none"]

\* ThreadSidebar before any reply: no handleSendReply call, nothing sent.
NoReplies == [turns |-> 0, inFlight |-> {}, stored |-> {}]

\* Home as mounted: the useState initial values, no query answered yet.
HomeMounted ==
    [ selectedWorkspaceId |-> 0, selectedChannelId |-> 0,
      threadOpen |-> FALSE, selectedMessageId |-> 0,
      tooltipShow |-> FALSE,
      workspacesLoaded |-> FALSE, channelsLoadedFor |-> 0 ]

\* ChatArea as mounted: empty input, no mutation running.
ChatMounted ==
    [ channelId |-> 0, message |-> << >>, isGenerating |-> FALSE,
      pending |-> {}, issued |-> 0, settled |-> [kind |-> "none", ok |-> TRUE] ]

\* Every table but workspaces and messages empty, nothing in flight.
InitEmpty ==
    /\ now = 1
    /\ reqSeq = 0
    /\ last = NoResponse
    /\ workspaceMembers = {}
    /\ memberSeq = 0
    /\ wsReqs = {}
    /\ aiCall = NoCall
    /\ aiResult = NoCall
    /\ serviceCalls = 0
    /\ studyProgress = {}
    /\ progSeq = 0
    /\ prReqs = {}
    /\ callLog = <<>>
    /\ quizReqs = {}
    /\ bookmarks = {}
    /\ bookmarkSeq = 0
    /\ bookmarkedUi = {}
    /\ threads = {}
    /\ threadSeq = 0
    /\ thrReqs = {}
    /\ channels = {}
    /\ chanSeq = 0
    /\ users = {}
    /\ userSeq = 0
    /\ sidebar = NoReplies
    /\ home = HomeMounted
    /\ chat = ChatMounted

InitOtherTables ==
    /\ InitEmpty
    /\ workspaces = {}
    /\ wsSeq = 0

InitTables ==
    /\ InitOtherTables
    /\ messages = {}
    /\ msgSeq = 0

(***************************************************************************)
(* Workspaces: POST /api/workspaces and DatabaseStorage.createWorkspace.   *)
(***************************************************************************)

\* What the workspace operations leave alone.
wsOthers == <<isDemo, aiVars, msgVars, prVars, quizReqs, bmVars, thVars, cnVars, usVars,
              sidebar, clVars>>

\* The rows of workspace_members for one (workspace, user) pair.
MemberRows(w, u) ==
    {m \in workspaceMembers : m.workspaceId = w /\ m.userId = u}

\* db.insert(workspaces).values(workspace).returning()
InsertWorkspace(owner) ==
    /\ wsSeq' = wsSeq + 1
    /\ workspaces' = workspaces \cup
           {[id |-> wsSeq + 1, ownerId |-> owner, createdAt |-> now]}

\* db.insert(workspaceMembers).values({workspaceId, userId, role})
InsertMember(w, u, role) ==
    /\ memberSeq' = memberSeq + 1
    /\ workspaceMembers' = workspaceMembers \cup
           {[id |-> memberSeq + 1, workspaceId |-> w, userId |-> u, role |-> role]}

\* Whether createWorkspace goes on to insert the owner's membership row: the
\* string-keyed variant does, the integer-keyed variant returns the new row.
AddsOwnerAsAdmin == variant = "string"

\* The request bodies a client may send to the workspace route: a name or
\* none, an ownerId of its own choosing or none.
WorkspaceBodies == [hasName : BOOLEAN, ownerId : {"absent", "u2"}]

\* insertWorkspaceSchema.parse({...req.body, ownerId: userId}): ownerId is the
\* route's whatever the body holds; name is required.
ParsedWorkspace(body, u) ==
    [ ok |-> body.hasName,
      ownerId |-> u ]

\* POST /api/workspaces up to the first await that can be interleaved: the body
\* is parsed with ownerId set to the session user; a body without a name is
\* answered 400, otherwise the workspace row is inserted.
PostWorkspace(u, body) ==
    /\ reqSeq < MaxRequests
    /\ reqSeq' = reqSeq + 1
    /\ IF ~ParsedWorkspace(body, u).ok
       THEN /\ last' = [op |-> "POST /api/workspaces", status |-> 400,
                        rid |-> reqSeq + 1, user |-> u, ws |-> 0, named |-> FALSE]
            /\ UNCHANGED <<now, wsVars>>
       ELSE /\ InsertWorkspace(ParsedWorkspace(body, u).ownerId)
            /\ now' = now + 1
            /\ IF AddsOwnerAsAdmin
               THEN /\ wsReqs' = wsReqs \cup
                          {[rid |-> reqSeq + 1, user |-> u, ws |-> wsSeq + 1]}
                    /\ UNCHANGED <<last, workspaceMembers, memberSeq>>
               ELSE /\ last' = [op |-> "POST /api/workspaces", status |-> 200,
                                rid |-> reqSeq + 1, user |-> u, ws |-> wsSeq + 1,
                                named |-> TRUE]
                    /\ UNCHANGED <<workspaceMembers, memberSeq, wsReqs>>
    /\ UNCHANGED <<variant, wsOthers>>

\* createWorkspace's second statement: the owner is added as admin member and
\* the handler answers with the workspace.
CreateWorkspaceAddOwner(r) ==
    /\ r \in wsReqs
    /\ InsertMember(r.ws, r.user, "admin")
    /\ wsReqs' = wsReqs \ {r}
    /\ last' = [op |-> "POST /api/workspaces", status |-> 200,
                rid |-> r.rid, user |-> r.user, ws |-> r.ws, named |-> TRUE]
    /\ UNCHANGED <<variant, now, reqSeq, workspaces, wsSeq, wsOthers>>

\* The second statement is rejected (the connection drops, the server stops):
\* createWorkspace throws and the route's catch answers 500.
CreateWorkspaceAddOwnerFails(r) ==
    /\ r \in wsReqs
    /\ wsReqs' = wsReqs \ {r}
    /\ last' = [op |-> "POST /api/workspaces", status |-> 500,
                rid |-> r.rid, user |-> r.user, ws |-> r.ws, named |-> TRUE]
    /\ UNCHANGED <<variant, now, reqSeq, workspaces, workspaceMembers, wsSeq, memberSeq, wsOthers>>

\* DatabaseStorage.addWorkspaceMember(workspaceId, userId, role = "member");
\* workspace_members.workspace_id references an existing workspace.
addWorkspaceMember(w, u, role) ==
    /\ reqSeq < MaxRequests
    /\ reqSeq' = reqSeq + 1
    /\ w \in {x.id : x \in workspaces}
    /\ InsertMember(w, u, role)
    /\ last' = [op |-> "addWorkspaceMember", status |-> 200,
                rid |-> reqSeq + 1, user |-> u, ws |-> w]
    /\ UNCHANGED <<variant, now, workspaces, wsSeq, wsReqs, wsOthers>>

\* DatabaseStorage.getUserWorkspaces(userId): workspaces left-joined to their
\* member rows, filtered, grouped by workspace, counting the joined rows.  The
\* string-keyed variant filters on workspaceMembers.userId = userId, so only
\* the user's own member rows reach the count; the integer-keyed variant
\* filters on workspaces.ownerId = userId and counts every member row.
getUserWorkspaces(u) ==
    IF variant = "string"
    THEN {[id |-> w.id, memberCount |-> Cardinality(MemberRows(w.id, u))] :
              w \in {x \in workspaces : MemberRows(x.id, u) # {}}}
    ELSE {[id |-> w.id,
           memberCount |-> Cardinality({m \in workspaceMembers : m.workspaceId = w.id})] :
              w \in {x \in workspaces : x.ownerId = u}}

\* GET /api/workspaces: answers with getUserWorkspaces of the session user.
GetWorkspaces(u) ==
    /\ last' = [op |-> "GET /api/workspaces", status |-> 200, rid |-> 0,
                user |-> u, result |-> getUserWorkspaces(u)]
    /\ UNCHANGED <<variant, now, reqSeq, wsVars, wsOthers>>

InitWs ==
    /\ InitTables
    /\ variant \in Variants
    /\ isDemo = TRUE

NextWs ==
    \/ \E u \in Users, body \in WorkspaceBodies : PostWorkspace(u, body)
    \/ \E r \in wsReqs : CreateWorkspaceAddOwner(r)
    \/ \E r \in wsReqs : CreateWorkspaceAddOwnerFails(r)
    \/ \E w \in 1..MaxRequests, u \in Users, role \in {"member", "admin"} :
           addWorkspaceMember(w, u, role)
    \/ \E u \in Users : GetWorkspaces(u)

SpecWs == InitWs /\ [][NextWs]_vars

\* C1: every completed createWorkspace call leaves exactly one WorkspaceMember
\* row for (the new workspace, its owner), and that row has role "admin".
\* Stated at the step in which POST /api/workspaces answers 200.
C1_CreateWorkspaceAddsOneAdmin ==
    (last.op = "POST /api/workspaces" /\ last.status = 200)
    => (\E m \in MemberRows(last.ws, last.user) :
            /\ m.role = "admin"
            /\ MemberRows(last.ws, last.user) = {m})

\* C2: a workspace is never observably ownerless: in every reachable state
\* every persisted workspace row has an admin WorkspaceMember row for its owner.
C2_NeverOwnerless ==
    \A w \in workspaces :
        \E m \in MemberRows(w.id, w.ownerId) : m.role = "admin"

\* C11: getUserWorkspaces(userId) returns exactly the workspaces in which
\* userId holds a membership row, each with memberCount equal to the number of
\* all WorkspaceMember rows of that workspace.
C11_UserWorkspacesCountAllMembers ==
    last.op = "GET /api/workspaces" =>
        last.result =
            {[id |-> w.id,
              memberCount |-> Cardinality({m \in workspaceMembers : m.workspaceId = w.id})] :
                 w \in {x \in workspaces : MemberRows(x.id, last.user) # {}}}

(***************************************************************************)
(* The content-generation adapter (server/openai.ts).  A string is a       *)
(* sequence of atoms: single characters where the code looks at            *)
(* characters, whole literals of the source otherwise.                     *)
(***************************************************************************)

\* String.prototype.toLowerCase, on the letters the inputs use.
LowerChar(c) ==
    CASE c = "F" -> "f"
      [] c = "E" -> "e"
      [] c = "M" -> "m"
      [] c = "B" -> "b"
      [] OTHER -> c

toLowerCase(s) == [i \in 1..Len(s) |-> LowerChar(s[i])]

\* s.split(' '): the pieces between single spaces (an empty string gives [""]).
RECURSIVE split(_)
split(s) ==
    IF \A i \in 1..Len(s) : s[i] # " "
    THEN <<s>>
    ELSE LET k == CHOOSE i \in 1..Len(s) :
                      s[i] = " " /\ \A j \in 1..(i - 1) : s[j] # " "
         IN  <<SubSeq(s, 1, k - 1)>> \o split(SubSeq(s, k + 1, Len(s)))

\* words.slice(0, n)
slice(words, n) == SubSeq(words, 1, IF Len(words) < n THEN Len(words) ELSE n)

\* words.join(' ')
RECURSIVE join(_)
join(words) ==
    IF Len(words) = 0 THEN <<>>
    ELSE IF Len(words) = 1 THEN words[1]
    ELSE words[1] \o <<" ">> \o join(Tail(words))

\* Inputs of the generation functions.
Subjects == {<<"M">>, <<"B", "i", "o">>}
Prompts == {<<"a">>, <<"a", " ", "b", " ", "c", " ", "d">>, <<"E", " ", " ", "f">>}
Terms ==
    { <<"f", "o", "r", "c", "e">>,
      <<"F", "o", "r", "c", "E">>,
      <<"z", "z">>,
      <<"c", "o", "n", "s", "t", "r", "u", "c", "t", "o", "r">> }

\* JavaScript values a text expression can have.
JsString(s) == [type |-> "string", text |-> s]
JsObject(name) == [type |-> "object", text |-> name]
JsNull == [type |-> "null", text |-> <<>>]
JsUndefined == [type |-> "undefined", text |-> <<>>]

\* ToBoolean: null, undefined and "" are falsy.
Truthy(v) == v.type = "object" \/ (v.type = "string" /\ v.text # <<>>)

\* a || b
Or(a, b) == IF Truthy(a) THEN a ELSE b

\* What openai.chat.completions.create does: it rejects with an error (message),
\* or resolves with a reply whose choices[0].message.content is null, empty, or
\* text that is JSON, or text that is not.
ServiceOutcomes ==
    { [kind |-> "throws", message |-> <<"Connection error.">>, content |-> JsNull, parses |-> FALSE],
      [kind |-> "reply", message |-> <<>>, content |-> JsNull, parses |-> FALSE],
      [kind |-> "reply", message |-> <<>>, content |-> JsString(<<>>), parses |-> FALSE],
      [kind |-> "reply", message |-> <<>>, content |-> JsString(<<"{...}">>), parses |-> TRUE],
      [kind |-> "reply", message |-> <<>>, content |-> JsString(<<"Sorry, I cannot.">>), parses |-> FALSE] }

\* A resolved promise and a rejected one; called: whether the completion
\* service was invoked.
Value(v, called) == [kind |-> "value", value |-> v, message |-> <<>>, called |-> called]
Failure(msg, called) == [kind |-> "error", value |-> JsUndefined, message |-> msg, called |-> called]

\* JSON.parse(content): the parsed object, or a SyntaxError.
JSONparse(outcome) ==
    IF outcome.parses
    THEN Value([json |-> outcome.content.text], TRUE)
    ELSE Failure(<<"Unexpected token">>, TRUE)

\* The live path below without its check of the content.
StructuredCompletionNoCheck(prefix, outcome) ==
    IF outcome.kind = "throws"
    THEN Failure(prefix \o outcome.message, TRUE)
    ELSE IF ~Truthy(outcome.content)
    THEN Value(outcome.content, TRUE)
    ELSE IF JSONparse(outcome).kind = "error"
    THEN Failure(prefix \o JSONparse(outcome).message, TRUE)
    ELSE JSONparse(outcome)

\* The live path shared by generateStudyArticle, generateQuiz and
\* generateStudyPlan: try { create; if (!content) throw new Error("No content
\* generated"); return JSON.parse(content) } catch { throw new Error(prefix +
\* error.message) }.
StructuredCompletion(prefix, outcome) ==
    IF outcome.kind = "throws"
    THEN Failure(prefix \o outcome.message, TRUE)
    ELSE IF ~Truthy(outcome.content)
    THEN Failure(prefix \o <<"No content generated">>, TRUE)
    ELSE IF JSONparse(outcome).kind = "error"
    THEN Failure(prefix \o JSONparse(outcome).message, TRUE)
    ELSE JSONparse(outcome)

\* The demo article of generateStudyArticle.
DemoArticle(prompt, subject) ==
    [ title |-> <<"Understanding ">> \o subject \o <<": ">>
                    \o join(slice(split(prompt), 3)),
      content |-> <<"This comprehensive study guide explores the fundamental concepts of ">>
                    \o subject \o <<". The topic \"">> \o prompt
                    \o <<"\" is essential for building a strong foundation in this subject area.">>,
      sections |-> <<"definition", "explanation", "example", "formula">>,
      difficulty |-> "intermediate",
      estimatedReadTime |-> 8,
      suggestedQuestions |-> 4 ]

ArticlePrefix == <<"Failed to generate study article: ">>

generateStudyArticle(demo, prompt, subject, outcome) ==
    IF demo
    THEN Value(DemoArticle(prompt, subject), FALSE)
    ELSE StructuredCompletion(ArticlePrefix, outcome)


\* The demo quiz of generateQuiz: three questions of four options each.
DemoQuiz(topic, subject) ==
    [ title |-> subject \o <<" Quiz: ">> \o topic,
      description |-> <<"Test your knowledge on ">> \o topic
                    \o <<" with this comprehensive quiz covering key concepts and applications.">>,
      questions |->
        << [ question |-> <<"What is the fundamental principle behind ">> \o topic \o <<"?">>,
             options |-> << <<"Conservation of energy">>, <<"Quantum mechanics">>,
                            <<"Electromagnetic induction">>, <<"Thermodynamic equilibrium">> >>,
             correctAnswer |-> 0,
             difficulty |-> "medium" ],
           [ question |-> <<"Which of the following best describes the practical application of ">>
                              \o topic \o <<"?">>,
             options |-> << <<"Only theoretical importance">>, <<"Used in modern technology">>,
                            <<"Historical significance only">>, <<"Future potential applications">> >>,
             correctAnswer |-> 1,
             difficulty |-> "easy" ],
           [ question |-> <<"What is the mathematical relationship in ">> \o topic \o <<"?">>,
             options |-> << <<"Linear relationship">>, <<"Exponential growth">>,
                            <<"Inverse proportionality">>, <<"Logarithmic scale">> >>,
             correctAnswer |-> 2,
             difficulty |-> "hard" ] >>,
      estimatedTime |-> 5 ]

QuizPrefix == <<"Failed to generate quiz: ">>

\* The function below with the demo quiz cut to the number of questions asked.
generateQuizFirstN(demo, topic, subject, numQuestions, outcome) ==
    IF demo
    THEN Value([DemoQuiz(topic, subject) EXCEPT
                   !.questions = SubSeq(@, 1, IF numQuestions < Len(@)
                                              THEN numQuestions ELSE Len(@))], FALSE)
    ELSE StructuredCompletion(QuizPrefix, outcome)

\* generateQuiz(topic, subject, numQuestions = 5): in demo mode the canned
\* quiz, whatever numQuestions is.
generateQuiz(demo, topic, subject, numQuestions, outcome) ==
    IF demo
    THEN Value(DemoQuiz(topic, subject), FALSE)
    ELSE StructuredCompletion(QuizPrefix, outcome)

\* The four canned answers of generateThreadResponse; the first, second and
\* fourth embed the subject.
DemoResponses(subject) ==
    << <<"Great question! Based on the context about ">> \o subject
           \o <<", here's a detailed explanation: ...">>,
       <<"That's an excellent follow-up question! In ">> \o subject
           \o <<", this particular aspect is crucial ...">>,
       <<"I'm glad you asked about this! ...">>,
       <<"This question touches on a fundamental concept in ">> \o subject
           \o <<". ...">> >>

ThreadPrefix == <<"Failed to generate response: ">>
ThreadFallback == <<"I'm sorry, I couldn't generate a response.">>

\* generateThreadResponse; pick is Math.floor(Math.random() * responses.length).
generateThreadResponse(demo, question, context, subject, pick, outcome) ==
    IF demo
    THEN Value(JsString(DemoResponses(subject)[pick + 1]), FALSE)
    ELSE IF outcome.kind = "throws"
    THEN Failure(ThreadPrefix \o outcome.message, TRUE)
    ELSE Value(Or(outcome.content, JsString(ThreadFallback)), TRUE)

\* The own keys of the demo definitions object.
DefinitionKeys ==
    { <<"p", "h", "y", "s", "i", "c", "s">>,
      <<"e", "n", "e", "r", "g", "y">>,
      <<"m", "o", "m", "e", "n", "t", "u", "m">>,
      <<"f", "o", "r", "c", "e">>,
      <<"v", "e", "l", "o", "c", "i", "t", "y">> }

\* The all-lowercase property names an object literal inherits from
\* Object.prototype.
InheritedKeys ==
    { <<"c", "o", "n", "s", "t", "r", "u", "c", "t", "o", "r">>,
      <<"_", "_", "p", "r", "o", "t", "o", "_", "_">> }

\* definitions[key]: the canned definition, an inherited property (an object,
\* not a string) or undefined.
DefinitionLookup(key) ==
    IF key \in DefinitionKeys THEN JsString(<<"definition of ">> \o key)
    ELSE IF key \in InheritedKeys THEN JsObject(key)
    ELSE JsUndefined

GenericDefinition(term) ==
    term \o <<" is a fundamental concept in science and education. ...">>

TermPrefix == <<"Failed to get term definition: ">>
TermFallback(term) == <<"Definition for \"">> \o term \o <<"\" is not available.">>

getTermDefinition(demo, term, outcome) ==
    IF demo
    THEN Value(Or(DefinitionLookup(toLowerCase(term)), JsString(GenericDefinition(term))), FALSE)
    ELSE IF outcome.kind = "throws"
    THEN Failure(TermPrefix \o outcome.message, TRUE)
    ELSE Value(Or(outcome.content, JsString(TermFallback(term))), TRUE)

PlanPrefix == <<"Failed to generate study plan: ">>

\* generateStudyPlan has no demo branch: it always calls the service.
generateStudyPlan(demo, subject, goals, timeframe, outcome) ==
    StructuredCompletion(PlanPrefix, outcome)


(***************************************************************************)
(* Calls of the five generation functions, in either mode, against every   *)
(* behaviour of the completion service.                                    *)
(***************************************************************************)

aiOthers == <<variant, now, last, wsVars, msgVars, prVars, quizReqs, bmVars, thVars, cnVars, usVars,
              sidebar, clVars>>

\* One call of a generation function: its result is kept, and the completion
\* service is counted as called when the function reached it.
Called(call, result) ==
    /\ reqSeq < MaxRequests
    /\ reqSeq' = reqSeq + 1
    /\ aiCall' = call
    /\ aiResult' = result
    /\ serviceCalls' = serviceCalls + (IF result.called THEN 1 ELSE 0)
    /\ UNCHANGED <<isDemo, aiOthers>>

CallGenerateStudyArticle(prompt, subject, outcome) ==
    Called([fn |-> "generateStudyArticle", text |-> prompt, subject |-> subject,
            outcome |-> outcome],
           generateStudyArticle(isDemo, prompt, subject, outcome))

\* The numbers of questions a caller asks for (5 when the body names none).
NumQuestions == {0, 3, 5}

CallGenerateQuiz(topic, subject, numQuestions, outcome) ==
    Called([fn |-> "generateQuiz", text |-> topic, subject |-> subject,
            outcome |-> outcome],
           generateQuiz(isDemo, topic, subject, numQuestions, outcome))

CallGenerateThreadResponse(question, subject, pick, outcome) ==
    Called([fn |-> "generateThreadResponse", text |-> question, subject |-> subject,
            outcome |-> outcome],
           generateThreadResponse(isDemo, question, <<"context">>, subject, pick, outcome))

CallGetTermDefinition(term, outcome) ==
    Called([fn |-> "getTermDefinition", text |-> term, subject |-> <<>>,
            outcome |-> outcome],
           getTermDefinition(isDemo, term, outcome))

CallGenerateStudyPlan(subject, outcome) ==
    Called([fn |-> "generateStudyPlan", text |-> <<"goals">>, subject |-> subject,
            outcome |-> outcome],
           generateStudyPlan(isDemo, subject, <<"goals">>, <<"4 weeks">>, outcome))

InitAi ==
    /\ InitTables
    /\ variant = "string"
    /\ isDemo \in BOOLEAN

NextAi ==
    \/ \E p \in Prompts, s \in Subjects, o \in ServiceOutcomes :
           CallGenerateStudyArticle(p, s, o)
    \/ \E t \in Prompts, s \in Subjects, n \in NumQuestions, o \in ServiceOutcomes :
           CallGenerateQuiz(t, s, n, o)
    \/ \E q \in Prompts, s \in Subjects, k \in 0..3, o \in ServiceOutcomes :
           CallGenerateThreadResponse(q, s, k, o)
    \/ \E t \in Terms, o \in ServiceOutcomes : CallGetTermDefinition(t, o)
    \/ \E s \in Subjects, o \in ServiceOutcomes : CallGenerateStudyPlan(s, o)

SpecAi == InitAi /\ [][NextAi]_vars


\* C8: getTermDefinition(term) never raises an error to its caller: in demo
\* mode, in live mode with a working service, and in live mode when the
\* completion call fails, it returns a non-empty string (a placeholder naming
\* the term when the service fails).
C8_TermDefinitionNeverRaises ==
    aiCall.fn = "getTermDefinition" =>
        /\ aiResult.kind = "value"
        /\ aiResult.value.type = "string"
        /\ aiResult.value.text # <<>>
        /\ (~isDemo /\ aiCall.outcome.kind = "throws"
                => aiResult.value = JsString(TermFallback(aiCall.text)))

\* C9: in demo mode each of the five generation functions returns canned
\* content and never calls the external completion service.
C9_DemoNeverCallsService ==
    isDemo =>
        /\ serviceCalls = 0
        /\ aiCall.fn # "none" => (aiResult.kind = "value" /\ ~aiResult.called)

\* The three functions whose reply must be JSON, and the prefix each puts
\* before the underlying error message.
StructuredFunctions == {"generateStudyArticle", "generateQuiz", "generateStudyPlan"}
PrefixOf(fn) ==
    CASE fn = "generateStudyArticle" -> ArticlePrefix
      [] fn = "generateQuiz" -> QuizPrefix
      [] fn = "generateStudyPlan" -> PlanPrefix
      [] fn = "generateThreadResponse" -> ThreadPrefix

\* A completion that failed, came back without content or does not parse,
\* and the message of the error it leads to.
FailedCompletion(outcome) ==
    outcome.kind = "throws" \/ ~Truthy(outcome.content) \/ ~outcome.parses
UnderlyingMessage(outcome) ==
    IF outcome.kind = "throws" THEN outcome.message
    ELSE IF ~Truthy(outcome.content) THEN <<"No content generated">>
    ELSE <<"Unexpected token">>

includes(text, sub) ==
    \E i \in 1..(Len(text) - Len(sub) + 1) : SubSeq(text, i, i + Len(sub) - 1) = sub

\* C23: in demo mode generateQuiz(topic, subject, n) returns a quiz whose
\* title contains subject and topic, whose question list is non-empty, and
\* whose every question has at least one option and a correctAnswer i with
\* 0 <= i < number of options.
C23_DemoQuizWellFormed ==
    (isDemo /\ aiCall.fn = "generateQuiz") =>
        /\ aiResult.kind = "value"
        /\ includes(aiResult.value.title, aiCall.subject)
        /\ includes(aiResult.value.title, aiCall.text)
        /\ Len(aiResult.value.questions) >= 1
        /\ \A k \in 1..Len(aiResult.value.questions) :
               LET q == aiResult.value.questions[k]
               IN  /\ Len(q.options) >= 1
                   /\ 0 <= q.correctAnswer
                   /\ q.correctAnswer < Len(q.options)

\* C23 witness: a demo quiz was generated for a topic of several words.
C23_Witness ==
    /\ isDemo
    /\ aiCall.fn = "generateQuiz"
    /\ Len(aiCall.text) > 1
    /\ aiResult.kind = "value"
    /\ Len(aiResult.value.questions) = 3


(***************************************************************************)
(* Study progress: DatabaseStorage.getStudyProgress / updateStudyProgress  *)
(* and POST /api/ai/generate-article, the one route that calls them.       *)
(***************************************************************************)

prOthers == <<variant, isDemo, wsVars, aiVars, quizReqs, bmVars, thVars, cnVars, usVars,
              sidebar, clVars>>

\* The partial updates a caller passes: a function from column names to values.
Partials ==
    { "topicsStudied" :> 1, "topicsStudied" :> 2, "dailyGoal" :> 3 }

\* The rows of study_progress for one (user, channel) pair.
ProgressRows(u, c) ==
    {r \in studyProgress : r.userId = u /\ r.channelId = c}

\* { ...row, ...partial }: the columns partial names replace the row's.
Assign(row, partial) ==
    [col \in DOMAIN row |-> IF col \in DOMAIN partial THEN partial[col] ELSE row[col]]

\* The row db.insert(studyProgress).values({userId, channelId, ...progress})
\* creates, with the defaults of the schema.
NewProgressRow(id, u, c, partial) ==
    Assign([id |-> id, userId |-> u, channelId |-> c, topicsStudied |-> 0,
            dailyGoal |-> 5, lastActivity |-> now], partial)

\* What the update statement sets: the string-keyed variant also stamps
\* lastActivity, the integer-keyed one sets the partial alone.
UpdateSet(partial) ==
    IF variant = "string" THEN ("lastActivity" :> now) @@ partial ELSE partial

\* db.update(studyProgress).set(...).where(userId and channelId match): every
\* matching row is updated.
UpdatedTable(u, c, partial) ==
    {IF r \in ProgressRows(u, c) THEN Assign(r, UpdateSet(partial)) ELSE r :
        r \in studyProgress}

\* The write below done as delete and insert: an existing row is replaced.
WriteProgressReplace(u, c, partial, existing) ==
    /\ studyProgress' = (studyProgress \ ProgressRows(u, c))
                            \cup {NewProgressRow(progSeq + 1, u, c, partial)}
    /\ progSeq' = progSeq + 1

\* The write below without its branch on the row read: always the insert.
WriteProgressAlwaysInsert(u, c, partial, existing) ==
    /\ studyProgress' = studyProgress \cup {NewProgressRow(progSeq + 1, u, c, partial)}
    /\ progSeq' = progSeq + 1

\* The write of updateStudyProgress(u, c, partial) once it has read whether a
\* row exists: the update when one did, the insert otherwise.
WriteProgress(u, c, partial, existing) ==
    IF existing
    THEN /\ studyProgress' = UpdatedTable(u, c, partial)
         /\ UNCHANGED progSeq
    ELSE /\ studyProgress' = studyProgress \cup {NewProgressRow(progSeq + 1, u, c, partial)}
         /\ progSeq' = progSeq + 1

\* db.insert(messages).values(message).returning()
InsertMessage(channel, author, isAiFlag, messageType) ==
    /\ msgSeq' = msgSeq + 1
    /\ messages' = messages \cup
           {[id |-> msgSeq + 1, channelId |-> channel, authorId |-> author,
             isAi |-> isAiFlag, messageType |-> messageType, createdAt |-> now]}

ArticleRoute == "POST /api/ai/generate-article"

\* The prompt and subject a well-formed generate-article body carries.
ArticlePrompt == <<"a", " ", "b", " ", "c", " ", "d">>
ArticleSubject == <<"M">>

\* POST /api/ai/generate-article up to its first await: a body without prompt,
\* subject or channelId is answered 400; otherwise generateStudyArticle is
\* called.
PostGenerateArticle(u, hasPrompt, hasSubject, channel) ==
    /\ reqSeq < MaxRequests
    /\ reqSeq' = reqSeq + 1
    /\ IF ~hasPrompt \/ ~hasSubject \/ channel = NoChannel
       THEN /\ last' = [op |-> ArticleRoute, status |-> 400, rid |-> reqSeq + 1,
                        user |-> u, channel |-> channel,
                        message |-> <<"Missing required fields: prompt, subject, channelId">>]
            /\ UNCHANGED prReqs
       ELSE /\ prReqs' = prReqs \cup
                  {[rid |-> reqSeq + 1, route |-> TRUE, user |-> u, channel |-> channel,
                    pc |-> "generate", partial |-> <<>>, existing |-> FALSE]}
            /\ UNCHANGED last
    /\ UNCHANGED <<now, msgVars, studyProgress, progSeq, callLog, prOthers>>

\* The step below with the message stored before the result is looked at.
ArticleGeneratedStoresFirst(r, outcome) ==
    /\ r \in prReqs
    /\ r.pc = "generate"
    /\ InsertMessage(r.channel, Null, TRUE, "article")
    /\ now' = now + 1
    /\ LET res == generateStudyArticle(isDemo, ArticlePrompt, ArticleSubject, outcome)
       IN  IF res.kind = "error"
           THEN /\ prReqs' = prReqs \ {r}
                /\ last' = [op |-> ArticleRoute, status |-> 500, rid |-> r.rid,
                            user |-> r.user, channel |-> r.channel,
                            message |-> <<"Failed to generate article: ">> \o res.message]
           ELSE /\ prReqs' = (prReqs \ {r}) \cup {[r EXCEPT !.pc = "getProgress"]}
                /\ UNCHANGED last
    /\ UNCHANGED <<reqSeq, studyProgress, progSeq, callLog, prOthers>>

\* generateStudyArticle settles.  When it throws, the route's catch answers
\* 500 with the wrapped message; otherwise the AI message is inserted.
ArticleGenerated(r, outcome) ==
    /\ r \in prReqs
    /\ r.pc = "generate"
    /\ LET res == generateStudyArticle(isDemo, ArticlePrompt, ArticleSubject, outcome)
       IN  IF res.kind = "error"
           THEN /\ prReqs' = prReqs \ {r}
                /\ last' = [op |-> ArticleRoute, status |-> 500, rid |-> r.rid,
                            user |-> r.user, channel |-> r.channel,
                            message |-> <<"Failed to generate article: ">> \o res.message]
                /\ UNCHANGED <<now, msgVars>>
           ELSE /\ InsertMessage(r.channel, Null, TRUE, "article")
                /\ now' = now + 1
                /\ prReqs' = (prReqs \ {r}) \cup {[r EXCEPT !.pc = "getProgress"]}
                /\ UNCHANGED last
    /\ UNCHANGED <<reqSeq, studyProgress, progSeq, callLog, prOthers>>

\* const currentProgress = await storage.getStudyProgress(userId, channelId);
\* the partial is { topicsStudied: (currentProgress?.topicsStudied || 0) + 1 }.
\* The select has no ORDER BY: with several rows for the pair any may be first.
ArticleReadProgress(r, row) ==
    /\ r \in prReqs
    /\ r.pc = "getProgress"
    /\ \/ row \in ProgressRows(r.user, r.channel)
       \/ row = NoRow /\ ProgressRows(r.user, r.channel) = {}
    /\ prReqs' = (prReqs \ {r}) \cup
           {[r EXCEPT !.pc = "updRead",
                      !.partial = "topicsStudied" :>
                          ((IF row = NoRow THEN 0 ELSE row.topicsStudied) + 1)]}
    /\ UNCHANGED <<now, reqSeq, last, msgVars, studyProgress, progSeq, callLog, prOthers>>

\* A direct call of storage.updateStudyProgress(u, c, partial).
CallUpdateStudyProgress(u, c, partial) ==
    /\ reqSeq < MaxRequests
    /\ reqSeq' = reqSeq + 1
    /\ prReqs' = prReqs \cup
           {[rid |-> reqSeq + 1, route |-> FALSE, user |-> u, channel |-> c,
             pc |-> "updRead", partial |-> partial, existing |-> FALSE]}
    /\ UNCHANGED <<now, last, msgVars, studyProgress, progSeq, callLog, prOthers>>

\* updateStudyProgress: const existing = await this.getStudyProgress(...)
UpdateReadExisting(r) ==
    /\ r \in prReqs
    /\ r.pc = "updRead"
    /\ prReqs' = (prReqs \ {r}) \cup
           {[r EXCEPT !.pc = "updWrite",
                      !.existing = ProgressRows(r.user, r.channel) # {}]}
    /\ UNCHANGED <<now, reqSeq, last, msgVars, studyProgress, progSeq, callLog, prOthers>>

\* updateStudyProgress: the update or the insert, and the return; the route
\* then answers 200.
UpdateWrite(r) ==
    /\ r \in prReqs
    /\ r.pc = "updWrite"
    /\ WriteProgress(r.user, r.channel, r.partial, r.existing)
    /\ now' = now + 1
    /\ prReqs' = prReqs \ {r}
    /\ callLog' = Append(callLog, [user |-> r.user, channel |-> r.channel,
                                   partial |-> r.partial, inserted |-> ~r.existing])
    /\ last' = [op |-> IF r.route THEN ArticleRoute ELSE "updateStudyProgress",
                status |-> 200, rid |-> r.rid, user |-> r.user,
                channel |-> r.channel, message |-> <<>>]
    /\ UNCHANGED <<reqSeq, msgVars, prOthers>>

\* Either storage variant, in live mode: there generateStudyArticle may return
\* or throw (in demo mode it always returns, which live mode covers).
InitProgress ==
    /\ InitTables
    /\ variant \in Variants
    /\ isDemo = FALSE

\* The steps of the generate-article route.
NextArticle ==
    \/ \E u \in Users, hasPrompt \in BOOLEAN, hasSubject \in BOOLEAN,
          c \in ChannelIds \cup {NoChannel} : PostGenerateArticle(u, hasPrompt, hasSubject, c)
    \/ \E r \in prReqs, o \in ServiceOutcomes : ArticleGenerated(r, o)
    \/ \E r \in prReqs, row \in studyProgress \cup {NoRow} : ArticleReadProgress(r, row)
    \/ \E r \in prReqs : UpdateReadExisting(r)
    \/ \E r \in prReqs : UpdateWrite(r)

\* Concurrent generate-article requests.
SpecArticle == InitProgress /\ [][NextArticle]_vars

\* The route and direct calls of updateStudyProgress.
NextProgress ==
    \/ NextArticle
    \/ \E u \in Users, c \in ChannelIds, partial \in Partials :
           CallUpdateStudyProgress(u, c, partial)

\* Concurrent requests and calls, interleaved at every await.
SpecProgress == InitProgress /\ [][NextProgress]_vars

\* One request or call at a time: each runs to its end before the next starts.
OneAtATime == Cardinality(prReqs') <= 1 /\ (prReqs # {} => reqSeq' = reqSeq)

SpecProgressSeq == InitProgress /\ [][NextProgress /\ OneAtATime]_vars


\* C3: in every reachable state, under any interleaving of concurrent
\* updateStudyProgress calls, there is at most one StudyProgress row per
\* (user, channel).
C3_OneProgressRowPerPair ==
    \A u \in Users, c \in ChannelIds : Cardinality(ProgressRows(u, c)) <= 1

\* The calls of the log made for one pair, in the order they returned.
CallsFor(u, c) ==
    SelectSeq(callLog, LAMBDA e : e.user = u /\ e.channel = c)

\* The topicsStudied a sequence of partial updates leaves: that of the last
\* partial naming it, the column's default 0 when none does.
LastTopicsStudied(calls) ==
    LET naming == {i \in 1..Len(calls) : "topicsStudied" \in DOMAIN calls[i].partial}
    IN  IF naming = {} THEN 0
        ELSE calls[CHOOSE i \in naming : \A j \in naming : j <= i].partial["topicsStudied"]

\* C4: updateStudyProgress calls run one after the other: for every pair the
\* first call inserts and every later one updates that same row, so a pair
\* that was written has exactly one row, and its topicsStudied is that of the
\* last call that named it ({topicsStudied: 1} then {topicsStudied: 2}
\* leaves one row with 2).
C4_SequentialUpsertKeepsOneRow ==
    \A u \in Users, c \in ChannelIds :
        LET calls == CallsFor(u, c)
        IN  IF calls = <<>>
            THEN ProgressRows(u, c) = {}
            ELSE /\ Cardinality(ProgressRows(u, c)) = 1
                 /\ calls[1].inserted
                 /\ \A i \in 2..Len(calls) : ~calls[i].inserted
                 /\ \A r \in ProgressRows(u, c) :
                        r.topicsStudied = LastTopicsStudied(calls)

\* C4 witness: {topicsStudied: 1} then {topicsStudied: 2} for a pair that had
\* no row, and the pair's one row holds 2.
C4_Witness ==
    \E u \in Users, c \in ChannelIds :
        /\ Len(CallsFor(u, c)) = 2
        /\ CallsFor(u, c)[1].partial = ("topicsStudied" :> 1)
        /\ CallsFor(u, c)[2].partial = ("topicsStudied" :> 2)
        /\ \E r \in ProgressRows(u, c) :
               ProgressRows(u, c) = {r} /\ r.topicsStudied = 2

\* C5: the topicsStudied of a StudyProgress row never decreases: across any
\* interleaving of generate-article requests every write stores a value
\* greater than or equal to the value stored before it.
C5_TopicsStudiedNeverDecreases ==
    [][\A r \in studyProgress : \A w \in studyProgress' :
           w.id = r.id => w.topicsStudied >= r.topicsStudied]_vars

\* A storage call of the route after createMessage is rejected (the connection
\* drops, a constraint fails): getStudyProgress or updateStudyProgress throws
\* and the route's catch answers 500 with the error's message.
ProgressCallFails(r) ==
    /\ r \in prReqs
    /\ r.route
    /\ r.pc \in {"getProgress", "updRead", "updWrite"}
    /\ prReqs' = prReqs \ {r}
    /\ last' = [op |-> ArticleRoute, status |-> 500, rid |-> r.rid,
                user |-> r.user, channel |-> r.channel,
                message |-> <<"Failed to generate article: ">>
                                \o <<"Connection terminated unexpectedly">>]
    /\ UNCHANGED <<now, reqSeq, msgVars, studyProgress, progSeq, callLog, prOthers>>

NextArticleFaults ==
    \/ NextArticle
    \/ \E r \in prReqs : ProgressCallFails(r)

\* The generate-article route with storage calls that can be rejected.
SpecArticleFaults == InitProgress /\ [][NextArticleFaults]_vars

\* C27: a generate-article request answered 400 or 500 has stored no message
\* and written no progress row (a request past its "generate" step has stored
\* its message); a request answered 200 has stored its message and writes
\* topicsStudied once, in the step that answers.
C27_ArticleAllOrNothing ==
    [][/\ (last' # last /\ last'.op = ArticleRoute /\ last'.status = 400)
           => UNCHANGED <<messages, studyProgress>>
       /\ \A r \in prReqs \ prReqs' :
              (r.route /\ last' # last /\ last'.rid = r.rid /\ r \notin prReqs') =>
                  IF last'.status = 200
                  THEN /\ r.pc = "updWrite"
                       /\ Len(callLog') = Len(callLog) + 1
                       /\ UNCHANGED messages
                  ELSE /\ r.pc = "generate"
                       /\ UNCHANGED <<messages, studyProgress>>]_vars

\* C26: once every generate-article request has been answered, a pair for
\* which N requests succeeded has exactly one progress row, with
\* topicsStudied = N, also when the requests ran concurrently.
C26_NoIncrementLost ==
    prReqs = {} =>
        \A u \in Users, c \in ChannelIds :
            LET n == Len(CallsFor(u, c))
            IN  IF n = 0
                THEN ProgressRows(u, c) = {}
                ELSE \E r \in ProgressRows(u, c) :
                         ProgressRows(u, c) = {r} /\ r.topicsStudied = n

\* The row an update by partial at time t makes of row: the columns partial
\* names are set, lastActivity is t, every other column is kept.
UpdatedInPlace(row, partial, t) ==
    Assign(row, ("lastActivity" :> t) @@ partial)

\* C21: the write of an updateStudyProgress(u, c, partial) call that read a
\* row for the pair updates the pair's rows in place (same id, the columns of
\* partial set, lastActivity the time of the call, every other column kept)
\* and leaves every other row as it was; a call that read no row inserts one
\* row seeded with the partial.
C21_UpdateInPlaceStampsActivity ==
    [][\A r \in prReqs :
          (r.pc = "updWrite" /\ r \notin prReqs') =>
              IF r.existing
              THEN studyProgress' =
                       {IF row \in ProgressRows(r.user, r.channel)
                        THEN UpdatedInPlace(row, r.partial, now) ELSE row :
                            row \in studyProgress}
              ELSE studyProgress' = studyProgress \cup
                       {NewProgressRow(progSeq + 1, r.user, r.channel, r.partial)}]_vars


(***************************************************************************)
(* Messages: POST /api/channels/:channelId/messages and                    *)
(* POST /api/ai/generate-quiz (generate-article is above).                 *)
(***************************************************************************)

msgOthers == <<variant, isDemo, wsVars, aiVars, prVars, bmVars, thVars, cnVars, usVars,
              sidebar, clVars>>

MessageRoute == "POST /api/channels/:channelId/messages"
QuizRoute == "POST /api/ai/generate-quiz"

\* The request bodies a client may send to the message route: content present
\* or not, isAi and authorId given or absent, messageType left to its default.
MessageBodies ==
    [ hasContent : BOOLEAN,
      isAi : {"absent", "true", "false"},
      messageType : {"absent"},
      authorId : {"absent", Null, "u2"} ]

\* The parse below with a schema that does not require content.
ParsedMessageAnyContent(body, channel, u) ==
    [ ok |-> TRUE,
      channelId |-> channel,
      authorId |-> u,
      isAi |-> body.isAi = "true",
      messageType |-> IF body.messageType = "absent" THEN "text" ELSE body.messageType ]

\* The parse below with the body's fields spread over the route's.
ParsedMessageBodyWins(body, channel, u) ==
    [ ok |-> body.hasContent,
      channelId |-> IF body.channelId = NoChannel THEN channel ELSE body.channelId,
      authorId |-> IF body.authorId = "absent" THEN u ELSE body.authorId,
      isAi |-> body.isAi = "true",
      messageType |-> IF body.messageType = "absent" THEN "text" ELSE body.messageType ]

\* insertMessageSchema.parse({...req.body, channelId, authorId: userId}):
\* channelId and authorId are the route's; content is required; isAi and
\* messageType are the body's, with the column defaults when absent.
ParsedMessage(body, channel, u) ==
    [ ok |-> body.hasContent,
      channelId |-> channel,
      authorId |-> u,
      isAi |-> body.isAi = "true",
      messageType |-> IF body.messageType = "absent" THEN "text" ELSE body.messageType ]

\* The message route: a body that fails the schema is answered 400, otherwise
\* the parsed message is inserted.
PostMessage(u, channel, body) ==
    /\ reqSeq < MaxRequests
    /\ reqSeq' = reqSeq + 1
    /\ LET data == ParsedMessage(body, channel, u)
       IN  IF ~data.ok
           THEN /\ last' = [op |-> MessageRoute, status |-> 400, rid |-> reqSeq + 1,
                            user |-> u, channel |-> channel, body |-> body, id |-> 0]
                /\ UNCHANGED <<now, msgVars>>
           ELSE /\ InsertMessage(data.channelId, data.authorId, data.isAi, data.messageType)
                /\ now' = now + 1
                /\ last' = [op |-> MessageRoute, status |-> 200, rid |-> reqSeq + 1,
                            user |-> u, channel |-> channel, body |-> body,
                            id |-> msgSeq + 1]
    /\ UNCHANGED <<quizReqs, msgOthers>>

\* POST /api/ai/generate-quiz up to its await: a body without topic, subject
\* or channelId is answered 400; otherwise generateQuiz is called.
PostGenerateQuiz(u, hasTopic, hasSubject, channel) ==
    /\ reqSeq < MaxRequests
    /\ reqSeq' = reqSeq + 1
    /\ IF ~hasTopic \/ ~hasSubject \/ channel = NoChannel
       THEN /\ last' = [op |-> QuizRoute, status |-> 400, rid |-> reqSeq + 1,
                        user |-> u, channel |-> channel,
                        message |-> <<"Missing required fields: topic, subject, channelId">>]
            /\ UNCHANGED quizReqs
       ELSE /\ quizReqs' = quizReqs \cup
                  {[rid |-> reqSeq + 1, user |-> u, channel |-> channel]}
            /\ UNCHANGED last
    /\ UNCHANGED <<now, msgVars, msgOthers>>

\* The step below with the quiz stored as a message of the requesting user.
QuizGeneratedAsUser(r, outcome) ==
    /\ r \in quizReqs
    /\ quizReqs' = quizReqs \ {r}
    /\ LET res == generateQuiz(isDemo, ArticlePrompt, ArticleSubject, 5, outcome)
       IN  IF res.kind = "error"
           THEN /\ last' = [op |-> QuizRoute, status |-> 500, rid |-> r.rid,
                            user |-> r.user, channel |-> r.channel,
                            message |-> <<"Failed to generate quiz: ">> \o res.message]
                /\ UNCHANGED <<now, msgVars>>
           ELSE /\ InsertMessage(r.channel, r.user, TRUE, "quiz")
                /\ now' = now + 1
                /\ last' = [op |-> QuizRoute, status |-> 200, rid |-> r.rid,
                            user |-> r.user, channel |-> r.channel, message |-> <<>>]
    /\ UNCHANGED <<reqSeq, msgOthers>>

\* generateQuiz settles: a throw is answered 500 with the wrapped message,
\* otherwise the quiz is stored as an AI message and the route answers 200.
QuizGenerated(r, outcome) ==
    /\ r \in quizReqs
    /\ quizReqs' = quizReqs \ {r}
    /\ LET res == generateQuiz(isDemo, ArticlePrompt, ArticleSubject, 5, outcome)
       IN  IF res.kind = "error"
           THEN /\ last' = [op |-> QuizRoute, status |-> 500, rid |-> r.rid,
                            user |-> r.user, channel |-> r.channel,
                            message |-> <<"Failed to generate quiz: ">> \o res.message]
                /\ UNCHANGED <<now, msgVars>>
           ELSE /\ InsertMessage(r.channel, Null, TRUE, "quiz")
                /\ now' = now + 1
                /\ last' = [op |-> QuizRoute, status |-> 200, rid |-> r.rid,
                            user |-> r.user, channel |-> r.channel, message |-> <<>>]
    /\ UNCHANGED <<reqSeq, msgOthers>>

\* The service is live (OPENAI_API_KEY set), so that the AI routes both store
\* messages and fail.
InitMessages ==
    /\ InitTables
    /\ variant = "string"
    /\ isDemo = FALSE

NextMessages ==
    \/ \E u \in Users, c \in ChannelIds, body \in MessageBodies : PostMessage(u, c, body)
    \/ \E u \in Users, hasTopic \in BOOLEAN, hasSubject \in BOOLEAN,
          c \in ChannelIds \cup {NoChannel} : PostGenerateQuiz(u, hasTopic, hasSubject, c)
    \/ \E r \in quizReqs, o \in ServiceOutcomes : QuizGenerated(r, o)
    \/ NextArticle

\* Every route that stores a message.
SpecMessages == InitMessages /\ [][NextMessages]_vars

NextGenerate ==
    \/ \E u \in Users, hasTopic \in BOOLEAN, hasSubject \in BOOLEAN,
          c \in ChannelIds \cup {NoChannel} : PostGenerateQuiz(u, hasTopic, hasSubject, c)
    \/ \E r \in quizReqs, o \in ServiceOutcomes : QuizGenerated(r, o)
    \/ NextArticle

\* The two routes that generate and store a message.
SpecGenerate == InitMessages /\ [][NextGenerate]_vars

\* The prefix each route's catch puts before the error's message.
RoutePrefix(op) ==
    IF op = ArticleRoute THEN <<"Failed to generate article: ">> \o ArticlePrefix
    ELSE <<"Failed to generate quiz: ">> \o QuizPrefix

\* C17: when the generation call fails, POST /api/ai/generate-article and
\* POST /api/ai/generate-quiz respond 500 with the wrapped error message,
\* create no message row and change no study-progress row; a request that
\* starts generating has stored nothing yet.
C17_FailedGenerationStoresNothing ==
    [][/\ (last' # last /\ last'.op \in {ArticleRoute, QuizRoute} /\ last'.status = 500)
          => /\ UNCHANGED <<messages, studyProgress>>
             /\ \E o \in ServiceOutcomes :
                    /\ FailedCompletion(o)
                    /\ last'.message = RoutePrefix(last'.op) \o UnderlyingMessage(o)
       /\ ((\E r \in prReqs' \ prReqs : r.pc = "generate") \/ quizReqs' \ quizReqs # {})
          => UNCHANGED <<messages, studyProgress>>]_vars

\* C17 witness: the article route answered 500 while a message of another
\* request is stored.
C17_Witness ==
    /\ last.op = ArticleRoute
    /\ last.status = 500
    /\ messages # {}

\* C7: every persisted Message with isAi = true has a null author.
C7_AiMessageHasNullAuthor ==
    \A m \in messages : m.isAi => m.authorId = Null


(***************************************************************************)
(* Bookmarks: POST and DELETE /api/messages/:messageId/bookmark, and the   *)
(* bookmark button of MessageItem.                                         *)
(***************************************************************************)

bmOthers == <<variant, isDemo, wsVars, aiVars, prVars, quizReqs, thVars, cnVars, usVars,
              sidebar, clVars>>

BookmarkPost == "POST /api/messages/:messageId/bookmark"
BookmarkDelete == "DELETE /api/messages/:messageId/bookmark"

\* The message ids a URL may name: those a run can create, existing or not.
MessageIds == 1..MaxRequests

BookmarkRows(u, m) == {b \in bookmarks : b.userId = u /\ b.messageId = m}

\* storage.createBookmark: an unconditional insert; the foreign key on
\* message_id rejects an id that names no message.
createBookmark(u, m) ==
    IF \E msg \in messages : msg.id = m
    THEN /\ bookmarks' = bookmarks \cup
                {[id |-> bookmarkSeq + 1, userId |-> u, messageId |-> m, createdAt |-> now]}
         /\ bookmarkSeq' = bookmarkSeq + 1
    ELSE UNCHANGED <<bookmarks, bookmarkSeq>>

\* The delete below matching on the message alone.
removeBookmarkOfMessage(u, m) ==
    /\ bookmarks' = {b \in bookmarks : b.messageId # m}
    /\ UNCHANGED bookmarkSeq

\* storage.removeBookmark: deletes every row of the user on the message.
removeBookmark(u, m) ==
    /\ bookmarks' = bookmarks \ BookmarkRows(u, m)
    /\ UNCHANGED bookmarkSeq

\* The POST route: 200 with the row, 500 when the insert is rejected.
PostBookmark(u, m) ==
    /\ reqSeq < MaxRequests
    /\ reqSeq' = reqSeq + 1
    /\ createBookmark(u, m)
    /\ now' = now + 1
    /\ last' = [op |-> BookmarkPost, rid |-> reqSeq + 1, user |-> u, message |-> m,
                status |-> IF \E msg \in messages : msg.id = m THEN 200 ELSE 500]
    /\ UNCHANGED <<bookmarkedUi, msgVars, bmOthers>>

\* The DELETE route: 200 with {success: true}, rows or no rows.
DeleteBookmark(u, m) ==
    /\ reqSeq < MaxRequests
    /\ reqSeq' = reqSeq + 1
    /\ removeBookmark(u, m)
    /\ last' = [op |-> BookmarkDelete, rid |-> reqSeq + 1, user |-> u, message |-> m,
                status |-> 200]
    /\ UNCHANGED <<now, bookmarkedUi, msgVars, bmOthers>>

\* MessageItem's bookmark button on a rendered message: POST when the local
\* bookmarked state is false, DELETE when it is true; on success the state
\* is flipped.
ToggleBookmark(u, m) ==
    /\ reqSeq < MaxRequests
    /\ reqSeq' = reqSeq + 1
    /\ \E msg \in messages : msg.id = m
    /\ IF <<u, m>> \notin bookmarkedUi
       THEN /\ createBookmark(u, m)
            /\ now' = now + 1
            /\ bookmarkedUi' = bookmarkedUi \cup {<<u, m>>}
            /\ last' = [op |-> BookmarkPost, rid |-> reqSeq + 1, user |-> u,
                        message |-> m, status |-> 200]
       ELSE /\ removeBookmark(u, m)
            /\ UNCHANGED now
            /\ bookmarkedUi' = bookmarkedUi \ {<<u, m>>}
            /\ last' = [op |-> BookmarkDelete, rid |-> reqSeq + 1, user |-> u,
                        message |-> m, status |-> 200]
    /\ UNCHANGED <<msgVars, bmOthers>>

\* A MessageItem is mounted anew (page reload, channel switch): its
\* bookmarked state starts at false again.
RemountMessageItem(u, m) ==
    /\ <<u, m>> \in bookmarkedUi
    /\ bookmarkedUi' = bookmarkedUi \ {<<u, m>>}
    /\ UNCHANGED <<now, reqSeq, last, bookmarks, bookmarkSeq, msgVars, bmOthers>>

InitBookmarks ==
    /\ InitTables
    /\ variant = "string"
    /\ isDemo = TRUE

NextBookmarks ==
    \/ \E u \in Users, c \in ChannelIds, body \in MessageBodies : PostMessage(u, c, body)
    \/ \E u \in Users, m \in MessageIds : PostBookmark(u, m)
    \/ \E u \in Users, m \in MessageIds : DeleteBookmark(u, m)
    \/ \E u \in Users, m \in MessageIds : ToggleBookmark(u, m)
    \/ \E u \in Users, m \in MessageIds : RemountMessageItem(u, m)

\* Messages and their bookmarks, by the routes and by the client's button.
SpecBookmarks == InitBookmarks /\ [][NextBookmarks]_vars

\* C6: there is at most one Bookmark row per (user, message) pair.
C6_OneBookmarkPerUserMessage ==
    \A u \in Users, m \in MessageIds : Cardinality(BookmarkRows(u, m)) <= 1

\* C14: removeBookmark(userId, messageId) is an idempotent delete: it
\* completes without error, removes exactly the rows matching both userId and
\* messageId (none when the pair has no bookmark) and leaves the other
\* bookmarks and every other table unchanged.
C14_RemoveBookmarkIdempotent ==
    [][(last'.op = BookmarkDelete /\ reqSeq' # reqSeq) =>
          /\ last'.status = 200
          /\ bookmarks' = {b \in bookmarks :
                               ~(b.userId = last'.user /\ b.messageId = last'.message)}
          /\ UNCHANGED <<bookmarkSeq, msgVars, thVars, wsVars, prVars>>]_vars

\* C14 witness: a pair without bookmark was removed, and the bookmark another
\* user holds on the same message is still there.
C14_Witness ==
    /\ last.op = BookmarkDelete
    /\ last.status = 200
    /\ \E b \in bookmarks : b.messageId = last.message /\ b.userId # last.user


(***************************************************************************)
(* Reading a channel: GET /api/channels/:channelId/messages and            *)
(* DatabaseStorage.getChannelMessages.                                     *)
(***************************************************************************)

chOthers == <<variant, isDemo, wsVars, aiVars, prVars, quizReqs, bmVars, thVars, cnVars, usVars,
              sidebar, clVars>>

MessagesGet == "GET /api/channels/:channelId/messages"

\* The limit of the route when the query string has none.
DefaultLimit == 50

\* The query strings: no limit, or limit=n.
LimitQueries ==
    {[has |-> FALSE, limit |-> 0]} \cup {[has |-> TRUE, limit |-> n] : n \in -1..2}

\* req.query.limit ? parseInt(req.query.limit) : 50
LimitOf(query) == IF query.has THEN query.limit ELSE DefaultLimit

\* ORDER BY created_at DESC of a set of rows (rows of equal time by id).
RECURSIVE orderByDesc(_)
orderByDesc(rows) ==
    IF rows = {} THEN <<>>
    ELSE LET first == CHOOSE r \in rows :
                 \A o \in rows : \/ o.createdAt < r.createdAt
                                 \/ (o.createdAt = r.createdAt /\ o.id <= r.id)
         IN  <<first>> \o orderByDesc(rows \ {first})

\* LIMIT n
limit(rows, n) == SubSeq(rows, 1, IF Len(rows) < n THEN Len(rows) ELSE n)

\* Array.prototype.reverse
reverse(rows) == [i \in 1..Len(rows) |-> rows[Len(rows) + 1 - i]]

\* DatabaseStorage.getChannelMessages(channelId, limit): the channel's
\* messages, newest first, at most limit of them.
getChannelMessages(channel, n) ==
    limit(orderByDesc({msg \in messages : msg.channelId = channel}), n)

\* The list the route sends, without the reversal.
ChannelMessagesSentNewestFirst(channel, n) == getChannelMessages(channel, n)

\* The list the route sends: res.json(messages.reverse()).
ChannelMessagesSent(channel, n) == reverse(getChannelMessages(channel, n))

\* GET /api/channels/:channelId/messages; a negative LIMIT is rejected by the
\* database and answered 500.
GetChannelMessages(u, channel, query) ==
    /\ last' = IF LimitOf(query) < 0
               THEN [op |-> MessagesGet, status |-> 500, rid |-> 0, user |-> u,
                     channel |-> channel, limit |-> LimitOf(query), result |-> <<>>]
               ELSE [op |-> MessagesGet, status |-> 200, rid |-> 0, user |-> u,
                     channel |-> channel, limit |-> LimitOf(query),
                     result |-> ChannelMessagesSent(channel, LimitOf(query))]
    /\ UNCHANGED <<now, reqSeq, msgVars, chOthers>>

InitChannel ==
    /\ InitTables
    /\ variant = "string"
    /\ isDemo = TRUE

NextChannel ==
    \/ \E u \in Users, c \in ChannelIds, body \in MessageBodies : PostMessage(u, c, body)
    \/ \E u \in Users, c \in ChannelIds, q \in LimitQueries : GetChannelMessages(u, c, q)

\* Messages are posted to channels and the channels are read.
SpecChannel == InitChannel /\ [][NextChannel]_vars

\* C12: getChannelMessages(channelId, limit) returns at most limit messages,
\* all of channel channelId, and the list the GET route sends after reversing
\* it is ordered by creation time non-decreasing (oldest first).
C12_ChannelMessagesOldestFirst ==
    (last.op = MessagesGet /\ last.status = 200) =>
        /\ Len(last.result) <= last.limit
        /\ \A i \in 1..Len(last.result) :
               /\ last.result[i] \in messages
               /\ last.result[i].channelId = last.channel
        /\ \A i, j \in 1..Len(last.result) :
               i < j => last.result[i].createdAt <= last.result[j].createdAt

\* C12 witness: a channel with three messages was read with limit 2, and two
\* messages were sent.
C12_Witness ==
    /\ last.op = MessagesGet
    /\ last.status = 200
    /\ last.limit = 2
    /\ Len(last.result) = 2
    /\ Cardinality({msg \in messages : msg.channelId = last.channel}) = 3


(***************************************************************************)
(* Threads: GET and POST /api/messages/:messageId/threads and              *)
(* POST /api/ai/thread-response.                                           *)
(***************************************************************************)

thOthers == <<variant, isDemo, wsVars, aiVars, prVars, quizReqs, bmVars, cnVars, usVars,
              clVars>>

ThreadsGet == "GET /api/messages/:messageId/threads"
ThreadsPost == "POST /api/messages/:messageId/threads"
ThreadResponseRoute == "POST /api/ai/thread-response"

\* A body without messageId (!messageId also holds of 0).
NoMessage == 0

\* The request bodies a client may send to the thread route: an empty one,
\* and those with content, with isAi given or absent and with authorId and
\* parentMessageId both given or both absent.
ThreadBodies ==
    {b \in [ hasContent : BOOLEAN,
             isAi : {"absent", "true"},
             authorId : {"absent", "u2"},
             parentMessageId : {NoMessage, 2} ] :
        /\ (b.authorId = "absent") = (b.parentMessageId = NoMessage)
        /\ (~b.hasContent => b.isAi = "absent" /\ b.authorId = "absent")}

\* insertThreadSchema.parse({...req.body, parentMessageId: messageId,
\* authorId: userId}): parentMessageId and authorId are the route's; content
\* is required; isAi is the body's, false when absent.
ParsedThread(body, m, u) ==
    [ ok |-> body.hasContent,
      parentMessageId |-> m,
      authorId |-> u,
      isAi |-> body.isAi = "true" ]

\* db.insert(threads).values(thread).returning()
InsertThread(m, author, isAiFlag) ==
    /\ threadSeq' = threadSeq + 1
    /\ threads' = threads \cup
           {[id |-> threadSeq + 1, parentMessageId |-> m, authorId |-> author,
             isAi |-> isAiFlag, createdAt |-> now]}

\* A lookup that finds a message for every id.
getMessageAlwaysFound(m) == TRUE

\* storage.getMessage(id): whether a message with the id exists.
getMessage(m) == \E msg \in messages : msg.id = m

\* POST /api/messages/:messageId/threads: 400 for a body that fails the
\* schema, 500 when the insert is rejected (parent_message_id references no
\* message), otherwise the thread is inserted.
PostThread(u, m, body) ==
    /\ reqSeq < MaxRequests
    /\ reqSeq' = reqSeq + 1
    /\ LET data == ParsedThread(body, m, u)
           status == IF ~data.ok THEN 400 ELSE IF ~getMessage(m) THEN 500 ELSE 200
       IN  /\ last' = [op |-> ThreadsPost, status |-> status, rid |-> reqSeq + 1,
                       user |-> u, message |-> m, body |-> body,
                       id |-> IF status = 200 THEN threadSeq + 1 ELSE 0]
           /\ IF status = 200
              THEN /\ InsertThread(data.parentMessageId, data.authorId, data.isAi)
                   /\ now' = now + 1
              ELSE UNCHANGED <<now, threads, threadSeq>>
    /\ UNCHANGED <<thrReqs, msgVars, thOthers>>


\* POST /api/ai/thread-response up to the await of generateThreadResponse: a
\* body without question, messageId or subject is answered 400; when
\* getMessage finds no message the answer is 404; otherwise
\* generateThreadResponse is called with the message's content as context.
PostThreadResponse(u, hasQuestion, m, hasSubject) ==
    /\ reqSeq < MaxRequests
    /\ reqSeq' = reqSeq + 1
    /\ IF ~hasQuestion \/ m = NoMessage \/ ~hasSubject
       THEN /\ last' = [op |-> ThreadResponseRoute, status |-> 400, rid |-> reqSeq + 1,
                        user |-> u, message |-> m,
                        question |-> hasQuestion, subject |-> hasSubject,
                        text |-> <<"Missing required fields: question, messageId, subject">>]
            /\ UNCHANGED thrReqs
       ELSE IF ~getMessage(m)
       THEN /\ last' = [op |-> ThreadResponseRoute, status |-> 404, rid |-> reqSeq + 1,
                        user |-> u, message |-> m,
                        question |-> hasQuestion, subject |-> hasSubject,
                        text |-> <<"Original message not found">>]
            /\ UNCHANGED thrReqs
       ELSE /\ thrReqs' = thrReqs \cup {[rid |-> reqSeq + 1, user |-> u, message |-> m]}
            /\ UNCHANGED last
    /\ UNCHANGED <<now, threads, threadSeq, msgVars, thOthers>>

\* generateThreadResponse settles: a throw is answered 500 with the wrapped
\* message, otherwise the response is stored as an AI thread of the message
\* and the route answers 200.
ThreadResponseGenerated(r, pick, outcome) ==
    /\ r \in thrReqs
    /\ thrReqs' = thrReqs \ {r}
    /\ LET res == generateThreadResponse(isDemo, ArticlePrompt, <<"context">>,
                                         ArticleSubject, pick, outcome)
       IN  IF res.kind = "error"
           THEN /\ last' = [op |-> ThreadResponseRoute, status |-> 500, rid |-> r.rid,
                            user |-> r.user, message |-> r.message,
                            text |-> <<"Failed to generate thread response: ">>
                                         \o res.message]
                /\ UNCHANGED <<now, threads, threadSeq>>
           ELSE /\ InsertThread(r.message, Null, TRUE)
                /\ now' = now + 1
                /\ last' = [op |-> ThreadResponseRoute, status |-> 200, rid |-> r.rid,
                            user |-> r.user, message |-> r.message, text |-> <<>>]
    /\ UNCHANGED <<reqSeq, msgVars, thOthers>>

\* ORDER BY created_at of a set of rows (rows of equal time by id).
RECURSIVE orderBy(_)
orderBy(rows) ==
    IF rows = {} THEN <<>>
    ELSE LET first == CHOOSE r \in rows :
                 \A o \in rows : \/ r.createdAt < o.createdAt
                                 \/ (r.createdAt = o.createdAt /\ r.id <= o.id)
         IN  <<first>> \o orderBy(rows \ {first})

\* The query below with the order of getChannelMessages.
getMessageThreadsNewestFirst(m) ==
    orderByDesc({t \in threads : t.parentMessageId = m})

\* DatabaseStorage.getMessageThreads(messageId): the message's threads, oldest
\* first.
getMessageThreads(m) ==
    orderBy({t \in threads : t.parentMessageId = m})

\* GET /api/messages/:messageId/threads
GetThreads(m) ==
    /\ last' = [op |-> ThreadsGet, status |-> 200, rid |-> 0,
                message |-> m, result |-> getMessageThreads(m)]
    /\ UNCHANGED <<now, reqSeq, thVars, msgVars, thOthers>>

\* The messages posted before the threads: two of u1 in channel 1.
PostedMessages ==
    {[id |-> i, channelId |-> 1, authorId |-> "u1", isAi |-> FALSE,
      messageType |-> "text", createdAt |-> 0] : i \in 1..2}

\* Two messages exist to attach threads to.  The service is live, so that
\* thread responses both are stored and fail.
InitThreads ==
    /\ InitOtherTables
    /\ messages = PostedMessages
    /\ msgSeq = 2
    /\ variant = "string"
    /\ isDemo = FALSE

NextThreads ==
    \/ \E u \in Users, m \in MessageIds, body \in ThreadBodies : 
           PostThread(u, m, body) /\ UNCHANGED sidebar
    \/ \E u \in Users, hasQuestion \in BOOLEAN, m \in MessageIds \cup {NoMessage},
          hasSubject \in BOOLEAN :
              PostThreadResponse(u, hasQuestion, m, hasSubject) /\ UNCHANGED sidebar
    \/ \E r \in thrReqs, o \in ServiceOutcomes :
           ThreadResponseGenerated(r, 0, o) /\ UNCHANGED sidebar
    \/ \E m \in MessageIds : GetThreads(m) /\ UNCHANGED sidebar

\* Messages get threads, by users and by the AI, and the threads are read.
SpecThreads == InitThreads /\ [][NextThreads]_vars

\* C13: getMessageThreads(messageId) returns exactly the threads whose
\* parentMessageId is messageId, ordered by creation time ascending, whatever
\* order they were created in relative to threads of other messages.
C13_MessageThreadsAscending ==
    last.op = ThreadsGet =>
        /\ {last.result[i] : i \in 1..Len(last.result)}
               = {t \in threads : t.parentMessageId = last.message}
        /\ Len(last.result)
               = Cardinality({t \in threads : t.parentMessageId = last.message})
        /\ \A i, j \in 1..Len(last.result) :
               i < j => last.result[i].createdAt <= last.result[j].createdAt

\* C18: POST /api/ai/thread-response for a messageId that references no
\* existing message responds 404, does not call generateThreadResponse and
\* creates no thread; a request missing question, messageId or subject
\* responds 400, whether or not the message exists, and nothing is stored.
C18_ThreadResponseNotFound ==
    [][/\ (last' # last /\ last'.op = ThreadResponseRoute /\ last'.status \in {400, 404})
          => /\ UNCHANGED <<threads, thrReqs>>
             /\ (last'.status = 400) =
                    (~last'.question \/ last'.message = NoMessage \/ ~last'.subject)
             /\ last'.status = 404 => \A msg \in messages : msg.id # last'.message
       /\ \A r \in thrReqs' \ thrReqs : \E msg \in messages : msg.id = r.message
       /\ \A t \in threads' \ threads : \E msg \in messages : msg.id = t.parentMessageId]_vars

\* C18 witness: a complete request for a message that does not exist was
\* answered 404.
C18_Witness ==
    /\ last.op = ThreadResponseRoute
    /\ last.status = 404
    /\ last.message # NoMessage
    /\ \A msg \in messages : msg.id # last.message

\* C13 witness: the threads of a message were read that has two, created
\* before and after a thread of another message.
C13_Witness ==
    /\ last.op = ThreadsGet
    /\ Len(last.result) = 2
    /\ \E t \in threads :
           /\ t.parentMessageId # last.message
           /\ last.result[1].createdAt < t.createdAt
           /\ t.createdAt < last.result[2].createdAt


(***************************************************************************)
(* The three routes that store generated content: generate-article,        *)
(* generate-quiz and thread-response, with well-formed bodies.             *)
(***************************************************************************)

NextAiRoutes ==
    \/ \E u \in Users, c \in ChannelIds : PostGenerateArticle(u, TRUE, TRUE, c)
    \/ \E r \in prReqs, o \in ServiceOutcomes : ArticleGenerated(r, o)
    \/ \E r \in prReqs, row \in studyProgress \cup {NoRow} : ArticleReadProgress(r, row)
    \/ \E r \in prReqs : UpdateReadExisting(r)
    \/ \E r \in prReqs : UpdateWrite(r)
    \/ \E u \in Users, c \in ChannelIds : PostGenerateQuiz(u, TRUE, TRUE, c)
    \/ \E r \in quizReqs, o \in ServiceOutcomes : QuizGenerated(r, o)
    \/ \E u \in Users, m \in MessageIds :
           PostThreadResponse(u, TRUE, m, TRUE) /\ UNCHANGED sidebar
    \/ \E r \in thrReqs, o \in ServiceOutcomes :
           ThreadResponseGenerated(r, 0, o) /\ UNCHANGED sidebar

\* Two messages exist; the AI routes run concurrently against a live service.
SpecAiRoutes == InitThreads /\ [][NextAiRoutes]_vars

\* C24: every message stored by generate-article or generate-quiz has
\* authorId null, isAi true, messageType "article" or "quiz" respectively and
\* the channelId of its request, and every thread stored by thread-response
\* has authorId null, isAi true and the requested message as its parent.
C24_GeneratedRowsAreAiRows ==
    [][/\ \A msg \in messages' \ messages :
              /\ msg.authorId = Null
              /\ msg.isAi = TRUE
              /\ \/ \E r \in prReqs \ prReqs' :
                        /\ r.pc = "generate"
                        /\ msg.messageType = "article"
                        /\ msg.channelId = r.channel
                 \/ \E r \in quizReqs \ quizReqs' :
                        /\ msg.messageType = "quiz"
                        /\ msg.channelId = r.channel
       /\ \A t \in threads' \ threads :
              /\ t.authorId = Null
              /\ t.isAi = TRUE
              /\ \E r \in thrReqs \ thrReqs' : t.parentMessageId = r.message]_vars

\* C24 witness: an article, a quiz and an AI thread have been stored.
C24_Witness ==
    /\ \E msg \in messages : msg.messageType = "article"
    /\ \E msg \in messages : msg.messageType = "quiz" /\ msg.channelId = 2
    /\ \E t \in threads : t.isAi = TRUE /\ t.parentMessageId = 2


(***************************************************************************)
(* The session guard: every route of registerRoutes lists isAuthenticated  *)
(* before its handler.                                                     *)
(***************************************************************************)

auOthers == <<variant, isDemo, now, wsVars, aiVars, msgVars, prVars, quizReqs,
              bmVars, thVars, cnVars, usVars, sidebar, clVars>>

\* The routes registerRoutes registers.
Routes ==
    { "GET /api/auth/user",
      "GET /api/workspaces",
      "POST /api/workspaces",
      "GET /api/workspaces/:id",
      "GET /api/workspaces/:workspaceId/channels",
      "POST /api/workspaces/:workspaceId/channels",
      MessagesGet,
      MessageRoute,
      ArticleRoute,
      QuizRoute,
      "POST /api/ai/generate-study-plan",
      "POST /api/ai/term-definition",
      ThreadsGet,
      ThreadsPost,
      ThreadResponseRoute,
      BookmarkPost,
      BookmarkDelete,
      "GET /api/bookmarks",
      "GET /api/study-progress",
      "GET /api/channels/:channelId/progress" }

\* The registrations with one route left without the guard.
MiddlewareBookmarksOpen(route) ==
    IF route = "GET /api/bookmarks" THEN <<>> ELSE <<"isAuthenticated">>

\* The middleware each registration puts before the handler:
\* app.get(path, isAuthenticated, handler), the same for every route.
Middleware(route) == <<"isAuthenticated">>

\* The statuses a route's handler sends: 200, 500 from its catch, 400 where
\* it validates the body, 404 where it checks that the entity exists.
HandlerStatuses(route) ==
    {200, 500}
    \cup (IF route \in {"POST /api/workspaces", "POST /api/workspaces/:workspaceId/channels",
                       MessageRoute, ArticleRoute, QuizRoute,
                       "POST /api/ai/generate-study-plan", "POST /api/ai/term-definition",
                       ThreadsPost, ThreadResponseRoute}
          THEN {400} ELSE {})
    \cup (IF route \in {"GET /api/workspaces/:id", ThreadResponseRoute}
          THEN {404} ELSE {})

\* isAuthenticated lets a request with a session through to the next
\* function and answers 401 to one without.
isAuthenticated(session) == session # Null

\* A request to a route, with or without a session: the middleware run in
\* order, then the handler.
Request(route, session, status) ==
    /\ reqSeq < MaxRequests
    /\ reqSeq' = reqSeq + 1
    /\ IF \E i \in 1..Len(Middleware(route)) :
              Middleware(route)[i] = "isAuthenticated" /\ ~isAuthenticated(session)
       THEN /\ status = 401
            /\ last' = [op |-> route, status |-> 401, rid |-> reqSeq + 1,
                        user |-> session, handlerRan |-> FALSE]
       ELSE /\ status \in HandlerStatuses(route)
            /\ last' = [op |-> route, status |-> status, rid |-> reqSeq + 1,
                        user |-> session, handlerRan |-> TRUE]
    /\ UNCHANGED auOthers

InitAuth ==
    /\ InitTables
    /\ variant = "string"
    /\ isDemo = TRUE

NextAuth ==
    \E route \in Routes, session \in Users \cup {Null}, status \in {200, 400, 401, 404, 500} :
        Request(route, session, status)

\* Requests with and without a session to every route.
SpecAuth == InitAuth /\ [][NextAuth]_vars

\* C15: every route registered by registerRoutes under /api is guarded by the
\* session check: for an unauthenticated request the handler (and with it
\* every storage operation and generation function) is not invoked, and the
\* response is 401.
C15_EveryRouteGuarded ==
    (last.op \in Routes /\ last.user = Null) =>
        /\ last.status = 401
        /\ ~last.handlerRan

\* C15 witness: a request without session to the bookmark list was answered.
C15_Witness ==
    /\ last.op = "GET /api/bookmarks"
    /\ last.user = Null
    /\ last.status = 401


(***************************************************************************)
(* The write endpoints: POST /api/workspaces, .../channels, .../messages   *)
(* and .../threads, each parsing its body with the insert schema.          *)
(***************************************************************************)

wrOthers == <<variant, isDemo, aiVars, prVars, quizReqs, bmVars, usVars, sidebar, clVars>>

WorkspaceRoute == "POST /api/workspaces"
ChannelRoute == "POST /api/workspaces/:workspaceId/channels"

ChannelNames == {"general", "physics"}

\* The request bodies a client may send to the channel route: no name, or a
\* name, with workspaceId given or absent.
ChannelBodies ==
    [ name : ChannelNames \cup {"absent"}, workspaceId : {0, 2} ]

\* db.insert(channels).values(channel).returning()
InsertChannel(w, name) ==
    /\ chanSeq' = chanSeq + 1
    /\ channels' = channels \cup
           {[id |-> chanSeq + 1, workspaceId |-> w, name |-> name, createdAt |-> now]}

\* POST /api/workspaces/:workspaceId/channels: the body is parsed with
\* workspaceId set to the URL's; 400 for a body that fails the schema, 500
\* when the insert is rejected (workspace_id references no workspace).
PostChannel(u, w, body) ==
    /\ reqSeq < MaxRequests
    /\ reqSeq' = reqSeq + 1
    /\ LET status == IF body.name = "absent" THEN 400
                     ELSE IF \A x \in workspaces : x.id # w THEN 500
                     ELSE 200
       IN  /\ last' = [op |-> ChannelRoute, status |-> status, rid |-> reqSeq + 1,
                       user |-> u, ws |-> w, body |-> body,
                       id |-> IF status = 200 THEN chanSeq + 1 ELSE 0]
           /\ IF status = 200
              THEN InsertChannel(w, body.name) /\ now' = now + 1
              ELSE UNCHANGED <<now, cnVars>>
    /\ UNCHANGED <<wsVars, msgVars, thVars, wrOthers>>


\* The message bodies that differ in what the schema looks at.
SchemaBodies == {b \in MessageBodies : b.authorId = "absent"}

InitWrite ==
    /\ InitTables
    /\ variant \in Variants
    /\ isDemo = TRUE

NextWrite ==
    \/ \E u \in Users, body \in WorkspaceBodies : PostWorkspace(u, body)
    \/ \E r \in wsReqs : CreateWorkspaceAddOwner(r)
    \/ \E r \in wsReqs : CreateWorkspaceAddOwnerFails(r)
    \/ \E u \in Users, w \in 1..MaxRequests, body \in ChannelBodies : PostChannel(u, w, body)
    \/ \E u \in Users, c \in ChannelIds, body \in SchemaBodies : PostMessage(u, c, body)
    \/ \E u \in Users, m \in MessageIds, body \in ThreadBodies : 
           PostThread(u, m, body) /\ UNCHANGED sidebar

\* The four write endpoints, with bodies that pass the schema and bodies that
\* do not.
SpecWrite == InitWrite /\ [][NextWrite]_vars

WriteRoutes == {WorkspaceRoute, ChannelRoute, MessageRoute, ThreadsPost}

\* Whether the body of the request a response answers passes the schema.
PassesSchema(response) ==
    CASE response.op = WorkspaceRoute -> response.named
      [] response.op = ChannelRoute -> response.body.name # "absent"
      [] response.op = MessageRoute -> response.body.hasContent
      [] response.op = ThreadsPost -> response.body.hasContent

\* C16: on the four write endpoints a body that fails the insert schema yields
\* a 400 response and no row is inserted; a body that passes yields 200 with
\* a row inserted, or 500 when the operation fails.
C16_InvalidBodyIs400 ==
    [][(last' # last /\ last'.op \in WriteRoutes) =>
          /\ last'.status \in {200, 400, 500}
          /\ (last'.status = 400) = ~PassesSchema(last')
          /\ last'.status = 400 =>
                 UNCHANGED <<workspaces, workspaceMembers, channels, messages, threads>>
          /\ last'.status = 200 =>
                 <<workspaces, workspaceMembers, channels, messages, threads>>'
                     # <<workspaces, workspaceMembers, channels, messages, threads>>]_vars

\* C16 witness: the channel route answered 400 to a body without name for a
\* workspace that exists.
C16_Witness ==
    /\ last.op = ChannelRoute
    /\ last.status = 400
    /\ \E w \in workspaces : w.id = last.ws


(***************************************************************************)
(* Bodies that name an author, a channel, a parent message or an owner of  *)
(* the client's choosing, sent to the message, thread and workspace routes.*)
(***************************************************************************)

\* Bodies of the message route with content, an authorId and a channelId of
\* the client's choosing or none.
ForgedMessageBodies ==
    [ hasContent : {TRUE},
      isAi : {"absent"},
      messageType : {"absent"},
      authorId : {"absent", Null, "u2"},
      channelId : {NoChannel, 2} ]

NextForged ==
    \/ \E u \in Users, body \in WorkspaceBodies : PostWorkspace(u, body)
    \/ \E r \in wsReqs : CreateWorkspaceAddOwner(r)
    \/ \E r \in wsReqs : CreateWorkspaceAddOwnerFails(r)
    \/ \E u \in Users, c \in ChannelIds, body \in ForgedMessageBodies : PostMessage(u, c, body)
    \/ \E u \in Users, m \in MessageIds, body \in ThreadBodies : 
           PostThread(u, m, body) /\ UNCHANGED sidebar

SpecForged == InitWrite /\ [][NextForged]_vars

\* C25: a message stored by the message route has the session user as
\* authorId and the URL's channel as channelId, a thread stored by the thread
\* route has the session user as authorId and the URL's message as
\* parentMessageId, and a workspace stored by the workspace route has the
\* session user as ownerId, whatever the request body carries.
C25_RouteFieldsOverrideBody ==
    [][/\ \A msg \in messages' \ messages :
              /\ last'.op = MessageRoute
              /\ msg.authorId = last'.user
              /\ msg.channelId = last'.channel
       /\ \A t \in threads' \ threads :
              /\ last'.op = ThreadsPost
              /\ t.authorId = last'.user
              /\ t.parentMessageId = last'.message
       /\ \A w \in workspaces' \ workspaces :
              \/ \E r \in wsReqs' \ wsReqs : r.ws = w.id /\ r.user = w.ownerId
              \/ /\ last' # last
                 /\ last'.op = WorkspaceRoute
                 /\ last'.ws = w.id
                 /\ last'.user = w.ownerId]_vars

\* C25 witness: u1 posted to channel 1 a body naming author u2 and channel 2,
\* and the message is stored, after a thread whose body named another author
\* and parent.
C25_Witness ==
    /\ last.op = MessageRoute
    /\ last.status = 200
    /\ last.user = "u1"
    /\ last.channel = 1
    /\ last.body.authorId = "u2"
    /\ last.body.channelId = 2
    /\ \E msg \in messages : msg.id = last.id /\ msg.authorId = "u1" /\ msg.channelId = 1
    /\ threads # {}


(***************************************************************************)
(* Channel list: GET /api/workspaces/:workspaceId/channels and             *)
(* DatabaseStorage.getWorkspaceChannels.                                   *)
(***************************************************************************)

ChannelsGet == "GET /api/workspaces/:workspaceId/channels"

\* The channel names in ascending order of the database's text collation.
NamesAscending == <<"general", "physics">>

\* The place of a name in that order.
NameRank(name) == CHOOSE i \in 1..Len(NamesAscending) : NamesAscending[i] = name

\* ORDER BY name of a set of channel rows: the orders the database may return;
\* rows of equal name come in any order.
orderByName(rows) ==
    {result \in [1..Cardinality(rows) -> rows] :
        /\ \A i, j \in DOMAIN result : i # j => result[i] # result[j]
        /\ \A i, j \in DOMAIN result :
               i < j => NameRank(result[i].name) <= NameRank(result[j].name)}

\* The query below without its ORDER BY: the rows come in any order.
getWorkspaceChannelsUnordered(w) ==
    LET rows == {c \in channels : c.workspaceId = w}
    IN  {result \in [1..Cardinality(rows) -> rows] :
            \A i, j \in DOMAIN result : i # j => result[i] # result[j]}

\* DatabaseStorage.getWorkspaceChannels(workspaceId): select from channels
\* where workspaceId matches, order by name.
getWorkspaceChannels(w) ==
    orderByName({c \in channels : c.workspaceId = w})

\* GET /api/workspaces/:workspaceId/channels: res.json(channels)
GetWorkspaceChannels(w) ==
    /\ \E result \in getWorkspaceChannels(w) :
           last' = [op |-> ChannelsGet, status |-> 200, rid |-> 0,
                    ws |-> w, result |-> result]
    /\ UNCHANGED <<now, reqSeq, cnVars, wsVars, msgVars, thVars, wrOthers>>

\* The workspaces created before the channels: two of u1.
CreatedWorkspaces ==
    {[id |-> i, ownerId |-> "u1", createdAt |-> 0] : i \in 1..2}

InitChannels ==
    /\ InitEmpty
    /\ workspaces = CreatedWorkspaces
    /\ wsSeq = 2
    /\ messages = {}
    /\ msgSeq = 0
    /\ variant \in Variants
    /\ isDemo = TRUE

NextChannels ==
    \/ \E u \in Users, w \in 1..MaxRequests, body \in ChannelBodies : PostChannel(u, w, body)
    \/ \E w \in 1..MaxRequests : GetWorkspaceChannels(w)

\* Channels are created in two workspaces and listed.
SpecChannels == InitChannels /\ [][NextChannels]_vars

\* C22: the channel list of a workspace holds exactly the channels whose
\* workspaceId is that workspace, each once, in ascending order of name.
C22_WorkspaceChannelsByName ==
    last.op = ChannelsGet =>
        /\ {last.result[i] : i \in 1..Len(last.result)}
               = {c \in channels : c.workspaceId = last.ws}
        /\ Len(last.result) = Cardinality({c \in channels : c.workspaceId = last.ws})
        /\ \A i, j \in 1..Len(last.result) :
               i < j => NameRank(last.result[i].name) <= NameRank(last.result[j].name)

\* C22 witness: a workspace whose channel "physics" was created before its
\* channel "general" is listed general first, while another workspace has a
\* channel too.
C22_Witness ==
    /\ last.op = ChannelsGet
    /\ Len(last.result) = 2
    /\ last.result[1].name = "general"
    /\ last.result[2].name = "physics"
    /\ last.result[1].id > last.result[2].id
    /\ \E c \in channels : c.workspaceId # last.ws


(***************************************************************************)
(* Users: the user operations of the integer-keyed DatabaseStorage.        *)
(***************************************************************************)

usOthers == <<variant, isDemo, wsVars, aiVars, msgVars, prVars, quizReqs, bmVars,
              thVars, cnVars, sidebar, clVars>>

\* SQL NULL for a timestamp.
NoTime == 0

Emails == {"a@x", "b@x"}
Passwords == {"hash1", "hash2"}
Tokens == {"tok"}

\* The updates a caller of updateUser may pass (Partial<User>): the columns
\* named in fields get the record's values.
UserUpdates ==
    { [fields |-> {"password"}, password |-> "hash2", resetToken |-> Null,
       resetTokenExpiry |-> NoTime],
      [fields |-> {"resetToken"}, password |-> "hash1", resetToken |-> "tok",
       resetTokenExpiry |-> NoTime],
      [fields |-> {"resetTokenExpiry"}, password |-> "hash1", resetToken |-> Null,
       resetTokenExpiry |-> NoTime],
      [fields |-> {"resetToken", "resetTokenExpiry"}, password |-> "hash1",
       resetToken |-> "tok", resetTokenExpiry |-> 9] }

\* db.update(users).set(...).where(eq(users.id, id)): set maps the row of id.
UpdateUsers(id, set) == {IF usr.id = id THEN set[usr] ELSE usr : usr \in users}

\* The response of a user operation.
UserDone(op, id) ==
    /\ reqSeq' = reqSeq + 1
    /\ now' = now + 1
    /\ last' = [op |-> op, status |-> 200, rid |-> reqSeq + 1, id |-> id]
    /\ UNCHANGED usOthers

\* createUser(userData: InsertUser): the insert schema omits resetToken,
\* resetTokenExpiry and lastLoginAt, which start null; email is unique.
createUser(email, password) ==
    /\ reqSeq < MaxRequests
    /\ \A usr \in users : usr.email # email
    /\ users' = users \cup
           {[id |-> userSeq + 1, email |-> email, password |-> password,
             resetToken |-> Null, resetTokenExpiry |-> NoTime,
             lastLoginAt |-> NoTime, updatedAt |-> now]}
    /\ userSeq' = userSeq + 1
    /\ UserDone("createUser", userSeq + 1)

\* updateUser(id, updates): .set({ ...updates, updatedAt: new Date() })
updateUser(id, updates) ==
    /\ reqSeq < MaxRequests
    /\ LET set == [usr \in users |->
               [usr EXCEPT
                   !.password = IF "password" \in updates.fields
                                THEN updates.password ELSE @,
                   !.resetToken = IF "resetToken" \in updates.fields
                                  THEN updates.resetToken ELSE @,
                   !.resetTokenExpiry = IF "resetTokenExpiry" \in updates.fields
                                        THEN updates.resetTokenExpiry ELSE @,
                   !.updatedAt = now]]
       IN  users' = UpdateUsers(id, set)
    /\ UNCHANGED userSeq
    /\ UserDone("updateUser", id)


\* updateUserPassword(id, password): .set({ password, resetToken: null,
\* resetTokenExpiry: null, updatedAt: new Date() })
updateUserPassword(id, password) ==
    /\ reqSeq < MaxRequests
    /\ LET set == [usr \in users |->
               [usr EXCEPT !.password = password, !.resetToken = Null,
                           !.resetTokenExpiry = NoTime, !.updatedAt = now]]
       IN  users' = UpdateUsers(id, set)
    /\ UNCHANGED userSeq
    /\ UserDone("updateUserPassword", id)

\* updateUserResetToken(id, token, expiry: Date): .set({ resetToken: token,
\* resetTokenExpiry: expiry, updatedAt: new Date() })
updateUserResetToken(id, token, expiry) ==
    /\ reqSeq < MaxRequests
    /\ LET set == [usr \in users |->
               [usr EXCEPT !.resetToken = token, !.resetTokenExpiry = expiry,
                           !.updatedAt = now]]
       IN  users' = UpdateUsers(id, set)
    /\ UNCHANGED userSeq
    /\ UserDone("updateUserResetToken", id)

\* updateUserLastLogin(id): .set({ lastLoginAt: new Date(), updatedAt: new Date() })
updateUserLastLogin(id) ==
    /\ reqSeq < MaxRequests
    /\ LET set == [usr \in users |-> [usr EXCEPT !.lastLoginAt = now, !.updatedAt = now]]
       IN  users' = UpdateUsers(id, set)
    /\ UNCHANGED userSeq
    /\ UserDone("updateUserLastLogin", id)

\* upsertUser(userData) of the string-keyed storage: insert, or on a conflict
\* on users.id set the row to userData with updatedAt: new Date().
upsertUser(id, email) ==
    /\ reqSeq < MaxRequests
    /\ users' = {usr \in users : usr.id # id}
                    \cup {[id |-> id, email |-> email, updatedAt |-> now]}
    /\ UNCHANGED userSeq
    /\ UserDone("upsertUser", 0)

InitUsers ==
    /\ InitTables
    /\ variant = "integer"
    /\ isDemo = TRUE

NextUsers ==
    \/ \E e \in Emails, p \in Passwords : createUser(e, p)
    \/ \E id \in 1..MaxRequests, updates \in UserUpdates : updateUser(id, updates)
    \/ \E id \in 1..MaxRequests, p \in Passwords : updateUserPassword(id, p)
    \/ \E id \in 1..MaxRequests, t \in Tokens : updateUserResetToken(id, t, now + 1)
    \/ \E id \in 1..MaxRequests : updateUserLastLogin(id)

\* The user operations, in any order.
SpecUsers == InitUsers /\ [][NextUsers]_vars

\* C20: every user whose resetToken is non-null also has a non-null
\* resetTokenExpiry.
C20_ResetTokenHasExpiry ==
    \A usr \in users : usr.resetToken # Null => usr.resetTokenExpiry # NoTime


(***************************************************************************)
(* Every operation of the storage layer and of the routes together.        *)
(***************************************************************************)

InitStore ==
    /\ InitTables
    /\ variant \in Variants
    /\ isDemo = FALSE

\* One request of each kind: a body that passes the schema, complete fields.
PlainMessage ==
    [hasContent |-> TRUE, isAi |-> "absent", messageType |-> "absent", authorId |-> "absent"]
PlainThread ==
    [hasContent |-> TRUE, isAi |-> "absent", authorId |-> "absent",
     parentMessageId |-> NoMessage]
PlainChannel == [name |-> "general", workspaceId |-> 0]

\* Every operation, by user u1 on workspace 1, channel 1, message 1, user row 1.
NextStore ==
    \/ PostWorkspace("u1", [hasName |-> TRUE, ownerId |-> "absent"])
    \/ \E r \in wsReqs : CreateWorkspaceAddOwner(r)
    \/ \E r \in wsReqs : CreateWorkspaceAddOwnerFails(r)
    \/ addWorkspaceMember(1, "u2", "member")
    \/ GetWorkspaces("u1")
    \/ variant = "string" /\ \E e \in Emails : upsertUser("u1", e)
    \/ variant = "integer" /\ createUser("a@x", "hash1")
    \/ variant = "integer" /\ \E updates \in UserUpdates : updateUser(1, updates)
    \/ variant = "integer" /\ updateUserPassword(1, "hash2")
    \/ variant = "integer" /\ updateUserResetToken(1, "tok", now + 1)
    \/ variant = "integer" /\ updateUserLastLogin(1)
    \/ PostChannel("u1", 1, PlainChannel)
    \/ PostMessage("u1", 1, PlainMessage)
    \/ GetChannelMessages("u1", 1, [has |-> FALSE, limit |-> 0])
    \/ PostThread("u1", 1, PlainThread) /\ UNCHANGED sidebar
    \/ PostThreadResponse("u1", TRUE, 1, TRUE) /\ UNCHANGED sidebar
    \/ \E r \in thrReqs, o \in ServiceOutcomes :
           ThreadResponseGenerated(r, 0, o) /\ UNCHANGED sidebar
    \/ GetThreads(1) /\ UNCHANGED sidebar
    \/ PostGenerateQuiz("u1", TRUE, TRUE, 1)
    \/ \E r \in quizReqs, o \in ServiceOutcomes : QuizGenerated(r, o)
    \/ PostGenerateArticle("u1", TRUE, TRUE, 1)
    \/ \E r \in prReqs, o \in ServiceOutcomes : ArticleGenerated(r, o)
    \/ \E r \in prReqs, row \in studyProgress \cup {NoRow} : ArticleReadProgress(r, row)
    \/ \E partial \in Partials : CallUpdateStudyProgress("u1", 1, partial)
    \/ \E r \in prReqs : UpdateReadExisting(r)
    \/ \E r \in prReqs : UpdateWrite(r)
    \/ PostBookmark("u1", 1)
    \/ DeleteBookmark("u1", 1)
    \/ ToggleBookmark("u1", 1)
    \/ RemountMessageItem("u1", 1)

SpecStore == InitStore /\ [][NextStore]_vars

\* The identifiers of the rows of a table.
Ids(table) == {row.id : row \in table}

\* C19: no operation removes a row of User, Workspace, WorkspaceMember,
\* Channel, Message, Thread or StudyProgress: the set of row identifiers of
\* each of these tables only grows, while rows of Bookmark can disappear.
C19_OnlyBookmarksAreDeleted ==
    [][/\ Ids(users) \subseteq Ids(users')
       /\ Ids(workspaces) \subseteq Ids(workspaces')
       /\ Ids(workspaceMembers) \subseteq Ids(workspaceMembers')
       /\ Ids(channels) \subseteq Ids(channels')
       /\ Ids(messages) \subseteq Ids(messages')
       /\ Ids(threads) \subseteq Ids(threads')
       /\ Ids(studyProgress) \subseteq Ids(studyProgress')]_vars

\* C19 witness: a bookmark was made and removed, and the message it was on is
\* still stored.
C19_Witness ==
    /\ last.op = BookmarkDelete
    /\ bookmarkSeq > 0
    /\ bookmarks = {}
    /\ messages # {}


(***************************************************************************)
(* ThreadSidebar.handleSendReply (client/src/components/thread-sidebar.tsx)*)
(* and the two requests it sends.  mutate() starts a request and returns:  *)
(* the server handles the requests of one call in either order.            *)
(***************************************************************************)

\* What the user typed in the reply box, as words.
ReplyContents ==
    { <<>>, <<" ">>, <<"thanks">>, <<"can you", " ", "show">>, <<"explain", " ", "this">> }

\* replyContent.trim() is empty.
Blank(text) == \A i \in 1..Len(text) : text[i] = " "

\* lowerReply.includes("explain") || ... || lowerReply.includes("diagram")
AiReplyWords == {"explain", "can you", "help", "example", "diagram"}
isAiReply(text) == \E i \in 1..Len(text) : text[i] \in AiReplyWords

\* A request of the sidebar on its way to the server.
SidebarRequest(kind, u, m) ==
    [turn |-> sidebar.turns + 1, kind |-> kind, user |-> u, message |-> m, rid |-> 0]

\* handleSendReply: nothing for a blank reply; otherwise the reply is sent
\* and, for a reply that asks the AI, the thread-response request right after.
handleSendReply(u, m, text) ==
    /\ sidebar.turns < MaxRequests
    /\ IF Blank(text)
       THEN UNCHANGED sidebar
       ELSE sidebar' =
                [sidebar EXCEPT
                    !.turns = @ + 1,
                    !.inFlight = @ \cup {SidebarRequest("reply", u, m)}
                                   \cup (IF isAiReply(text)
                                         THEN {SidebarRequest("ai", u, m)} ELSE {})]
    /\ UNCHANGED <<now, reqSeq, last, thVars, msgVars, thOthers>>

\* The thread a finished request of the sidebar stored.
StoredThread(q, kind, id) ==
    [turn |-> q.turn, kind |-> kind, message |-> q.message, thread |-> id]

\* The server handles a reply of the sidebar: POST /api/messages/:id/threads
\* with {content}.
HandleReply(q) ==
    /\ q \in sidebar.inFlight
    /\ q.kind = "reply"
    /\ PostThread(q.user, q.message, PlainThread)
    /\ sidebar' =
           [sidebar EXCEPT
               !.inFlight = @ \ {q},
               !.stored = IF last'.status = 200
                          THEN @ \cup {StoredThread(q, "reply", last'.id)} ELSE @]

\* The server starts handling a thread-response request of the sidebar.
HandleAiRequest(q) ==
    /\ q \in sidebar.inFlight
    /\ q.kind = "ai"
    /\ PostThreadResponse(q.user, TRUE, q.message, TRUE)
    /\ sidebar' =
           [sidebar EXCEPT
               !.inFlight = IF getMessage(q.message)
                            THEN (@ \ {q}) \cup
                                     {[q EXCEPT !.kind = "generating", !.rid = reqSeq + 1]}
                            ELSE @ \ {q}]

\* generateThreadResponse settles for a request of the sidebar.
AiResponseGenerated(q, r, outcome) ==
    /\ q \in sidebar.inFlight
    /\ q.kind = "generating"
    /\ r.rid = q.rid
    /\ ThreadResponseGenerated(r, 0, outcome)
    /\ sidebar' =
           [sidebar EXCEPT
               !.inFlight = @ \ {q},
               !.stored = IF last'.status = 200
                          THEN @ \cup {StoredThread(q, "ai", threadSeq + 1)} ELSE @]

InitSidebar ==
    /\ InitOtherTables
    /\ messages = PostedMessages
    /\ msgSeq = 2
    /\ variant = "string"
    /\ isDemo \in BOOLEAN

NextSidebar ==
    \/ \E u \in Users, m \in MessageIds, text \in ReplyContents : handleSendReply(u, m, text)
    \/ \E q \in sidebar.inFlight : HandleReply(q)
    \/ \E q \in sidebar.inFlight : HandleAiRequest(q)
    \/ \E q \in sidebar.inFlight, r \in thrReqs, o \in ServiceOutcomes :
           AiResponseGenerated(q, r, o)

\* Replies typed into thread sidebars, and the server handling their requests.
SpecSidebar == InitSidebar /\ [][NextSidebar]_vars

\* The place of thread id in the list getMessageThreads(m) returns.
PlaceInThreads(m, id) ==
    CHOOSE i \in 1..Len(getMessageThreads(m)) : getMessageThreads(m)[i].id = id

\* C28: whenever the AI answer of a reply is stored, the reply's own thread
\* row is stored too and getMessageThreads lists it before the answer.
C28_ReplyBeforeAiAnswer ==
    \A b \in sidebar.stored :
        b.kind = "ai" =>
            \E a \in sidebar.stored :
                /\ a.kind = "reply"
                /\ a.turn = b.turn
                /\ PlaceInThreads(a.message, a.thread) < PlaceInThreads(b.message, b.thread)


(***************************************************************************)
(* The Home page (client/src/pages/home.tsx): its four pieces of selection *)
(* state, the two auto-select effects and the handlers it passes down.     *)
(***************************************************************************)

hmOthers == <<variant, isDemo, now, reqSeq, last, wsVars, aiVars, msgVars, prVars, quizReqs,
              bmVars, thVars, cnVars, usVars, sidebar, chat>>

\* null of selectedWorkspaceId
NoWorkspace == 0

\* The user of the page.
HomeUser == "u1"

\* data of useQuery(["/api/workspaces"]): undefined until answered.
WorkspacesData ==
    IF home.workspacesLoaded THEN {w.id : w \in getUserWorkspaces(HomeUser)} ELSE {}

\* data of useQuery([`/api/workspaces/${selectedWorkspaceId}/channels`]):
\* undefined until the query of the selected workspace is answered.
ChannelsData ==
    IF home.selectedWorkspaceId # NoWorkspace
       /\ home.channelsLoadedFor = home.selectedWorkspaceId
    THEN getWorkspaceChannels(home.selectedWorkspaceId)
    ELSE {<<>>}

\* GET /api/workspaces is answered.
WorkspacesQueryAnswered ==
    /\ ~home.workspacesLoaded
    /\ home' = [home EXCEPT !.workspacesLoaded = TRUE]
    /\ UNCHANGED hmOthers

\* The channels query of the selected workspace is answered.
ChannelsQueryAnswered ==
    /\ home.selectedWorkspaceId # NoWorkspace
    /\ home.channelsLoadedFor # home.selectedWorkspaceId
    /\ home' = [home EXCEPT !.channelsLoadedFor = home.selectedWorkspaceId]
    /\ UNCHANGED hmOthers

\* useEffect: workspaces && workspaces.length > 0 && !selectedWorkspaceId:
\* workspaces[0] is selected (the list has no stated order).
AutoSelectWorkspace(w) ==
    /\ w \in WorkspacesData
    /\ home.selectedWorkspaceId = NoWorkspace
    /\ home' = [home EXCEPT !.selectedWorkspaceId = w]
    /\ UNCHANGED hmOthers

\* useEffect: channels && channels.length > 0 && !selectedChannelId:
\* channels[0] is selected.
AutoSelectChannel(list) ==
    /\ list \in ChannelsData
    /\ Len(list) > 0
    /\ home.selectedChannelId = NoChannel
    /\ home' = [home EXCEPT !.selectedChannelId = list[1].id]
    /\ UNCHANGED hmOthers

\* onWorkspaceSelect={setSelectedWorkspaceId}: a workspace of the list is
\* clicked in the sidebar.
onWorkspaceSelect(w) ==
    /\ w \in WorkspacesData
    /\ home' = [home EXCEPT !.selectedWorkspaceId = w]
    /\ UNCHANGED hmOthers

\* handleChannelSelect(channelId): a channel of the list is clicked.
handleChannelSelect(list, i) ==
    /\ list \in ChannelsData
    /\ i \in 1..Len(list)
    /\ home' = [home EXCEPT !.selectedChannelId = list[i].id,
                            !.threadOpen = FALSE, !.selectedMessageId = NoMessage]
    /\ UNCHANGED hmOthers

\* handleThreadOpen(messageId): ChatArea shows messages once a channel is
\* selected.
handleThreadOpen(m) ==
    /\ home.selectedChannelId # NoChannel
    /\ home' = [home EXCEPT !.selectedMessageId = m, !.threadOpen = TRUE]
    /\ UNCHANGED hmOthers

\* handleThreadClose: ThreadSidebar is rendered when threadOpen &&
\* selectedMessageId.
handleThreadClose ==
    /\ home.threadOpen
    /\ home.selectedMessageId # NoMessage
    /\ home' = [home EXCEPT !.threadOpen = FALSE, !.selectedMessageId = NoMessage]
    /\ UNCHANGED hmOthers

\* handleTooltipShow / handleTooltipClose
handleTooltip(show) ==
    /\ home.tooltipShow # show
    /\ home' = [home EXCEPT !.tooltipShow = show]
    /\ UNCHANGED hmOthers

\* Two workspaces of the user exist; channels are created in them while the
\* page is open.
InitHome ==
    /\ InitEmpty
    /\ workspaces = CreatedWorkspaces
    /\ wsSeq = 2
    /\ messages = {}
    /\ msgSeq = 0
    /\ variant = "integer"
    /\ isDemo = TRUE

NextHome ==
    \/ \E w \in 1..2, name \in ChannelNames :
           PostChannel(HomeUser, w, [name |-> name, workspaceId |-> 0])
    \/ WorkspacesQueryAnswered
    \/ ChannelsQueryAnswered
    \/ \E w \in 1..2 : AutoSelectWorkspace(w)
    \/ \E list \in ChannelsData : AutoSelectChannel(list)
    \/ \E w \in 1..2 : onWorkspaceSelect(w)
    \/ \E list \in ChannelsData, i \in 1..MaxRequests : handleChannelSelect(list, i)
    \/ \E m \in MessageIds : handleThreadOpen(m)
    \/ handleThreadClose
    \/ \E show \in BOOLEAN : handleTooltip(show)

SpecHome == InitHome /\ [][NextHome]_vars

\* C29: the selected channel, when there is one, is a channel of the
\* selected workspace, and a step that selects another channel leaves no
\* thread open.
C29_ChannelOfSelectedWorkspace ==
    /\ [](home.selectedChannelId # NoChannel =>
            \E c \in channels : /\ c.id = home.selectedChannelId
                                /\ c.workspaceId = home.selectedWorkspaceId)
    /\ [][home'.selectedChannelId # home.selectedChannelId =>
            (~home'.threadOpen /\ home'.selectedMessageId = NoMessage)]_vars


(***************************************************************************)
(* ChatArea (client/src/components/chat-area.tsx): the input, the flag     *)
(* isGenerating and the three mutations.  chat.pending holds the mutations *)
(* whose request has not been answered yet; a text is a sequence of pieces *)
(* (words, fragments of words and single spaces).                          *)
(***************************************************************************)
caOthers == <<variant, isDemo, now, reqSeq, last, wsVars, aiVars, msgVars, prVars, quizReqs,
              bmVars, thVars, cnVars, usVars, sidebar, home>>

\* The four quick suggestions.
suggestions ==
    { <<"Generate", " ", "practice", " ", "problems">>,
      <<"Explain", " ", "with", " ", "examples">>,
      <<"Create", " ", "study", " ", "flashcards">>,
      <<"Show", " ", "real-world", " ", "applications">> }

\* The text the "Ask AI" button puts in the input.
AskAiText == <<"Generate", " ", "a", " ", "study", " ", "article", " ", "about", " ">>

\* What the user types: nothing, a space, a plain message, a word that
\* merely contains "test", the word "questions", and an AI request.
TypedTexts ==
    { << >>, <<" ">>, <<"hello">>, <<"la", "test">>, <<"questions">>,
      <<"explain", " ", "gravity">> }

\* message.toLowerCase(), on the capitalised pieces the texts use.
lowerMessage(text) ==
    [i \in 1..Len(text) |->
        CASE text[i] = "Generate" -> "generate"
          [] text[i] = "Explain" -> "explain"
          [] text[i] = "Create" -> "create"
          [] text[i] = "Show" -> "show"
          [] OTHER -> text[i]]

isAiRequest(text) ==
    \E w \in {"explain", "generate", "create", "quiz", "test"} :
        includes(lowerMessage(text), <<w>>)

isQuizRequest(text) ==
    \E w \in {"quiz", "test", "questions"} : includes(lowerMessage(text), <<w>>)

\* sendMessageMutation.isPending
sendPending == \E p \in chat.pending : p.kind = "send"

\* disabled of the Input and of the send Button.
InputDisabled == sendPending \/ chat.isGenerating
ButtonDisabled == Blank(chat.message) \/ sendPending \/ chat.isGenerating

\* The prop channelId follows Home's selected channel.
ChannelProp(c) ==
    /\ c # chat.channelId
    /\ chat' = [chat EXCEPT !.channelId = c]
    /\ UNCHANGED <<caOthers>>

\* onChange of the Input: only an enabled input takes keystrokes.
onChange(text) ==
    /\ ~InputDisabled
    /\ text # chat.message
    /\ chat' = [chat EXCEPT !.message = text]
    /\ UNCHANGED <<caOthers>>

\* The "Ask AI" button and the suggestion buttons: never disabled.
insertSuggestion(text) ==
    /\ text # chat.message
    /\ chat' = [chat EXCEPT !.message = text]
    /\ UNCHANGED <<caOthers>>

\* mutate() of the mutation the text asks for.
Mutation(kind) == [kind |-> kind, n |-> chat.issued + 1, channelId |-> chat.channelId]

\* handleSendMessage run whatever the controls show.
handleSendMessageAlwaysEnabled(via) ==
    /\ via \in {"enter", "click"}
    /\ chat.issued < MaxRequests
    /\ ~Blank(chat.message)
    /\ chat.channelId # NoChannel
    /\ LET kind == IF ~isAiRequest(chat.message) THEN "send"
                   ELSE IF isQuizRequest(chat.message) THEN "quiz" ELSE "article"
       IN  chat' = [chat EXCEPT !.isGenerating = @ \/ isAiRequest(chat.message),
                                !.pending = @ \cup {Mutation(kind)},
                                !.issued = @ + 1]
    /\ UNCHANGED <<caOthers>>

\* handleSendMessage, from Enter in the Input or a click on the Button.
handleSendMessage(via) ==
    /\ \/ via = "enter" /\ ~InputDisabled
       \/ via = "click" /\ ~ButtonDisabled
    /\ chat.issued < MaxRequests
    /\ ~Blank(chat.message)
    /\ chat.channelId # NoChannel
    /\ LET kind == IF ~isAiRequest(chat.message) THEN "send"
                   ELSE IF isQuizRequest(chat.message) THEN "quiz" ELSE "article"
       IN  chat' = [chat EXCEPT !.isGenerating = @ \/ isAiRequest(chat.message),
                                !.pending = @ \cup {Mutation(kind)},
                                !.issued = @ + 1]
    /\ UNCHANGED <<caOthers>>

\* The request of a mutation is answered: onSuccess or onError.
MutationSettled(p, ok) ==
    /\ p \in chat.pending
    /\ chat' = [chat EXCEPT
                  !.pending = @ \ {p},
                  !.isGenerating = IF p.kind = "send" THEN @ ELSE FALSE,
                  !.message = IF p.kind = "send" /\ ok THEN << >> ELSE @,
                  !.settled = [kind |-> p.kind, ok |-> ok]]
    /\ UNCHANGED <<caOthers>>

SomeMutationSettled == \E p \in chat.pending, ok \in BOOLEAN : MutationSettled(p, ok)

InitChat ==
    /\ InitOtherTables
    /\ messages = {}
    /\ msgSeq = 0
    /\ variant = "integer"
    /\ isDemo = TRUE

NextChat ==
    \/ \E c \in {1, 2} : ChannelProp(c)
    \/ \E text \in TypedTexts : onChange(text)
    \/ \E text \in suggestions \cup {AskAiText} : insertSuggestion(text)
    \/ \E via \in {"enter", "click"} : handleSendMessage(via)
    \/ SomeMutationSettled

SpecChat == InitChat /\ [][NextChat]_vars

\* Every request fetch sends is answered or fails.
SpecChatFair == SpecChat /\ WF_vars(SomeMutationSettled)

\* C30: every AI request that sets isGenerating is eventually followed by
\* isGenerating false, whether the article or quiz request succeeds or
\* fails; and a request is issued from the chat area only while
\* isGenerating is false and no send is pending, so that at most one
\* mutation is in flight and isGenerating is true exactly while it is an
\* article or quiz mutation.
C30_GeneratingEndsNoSecondRequest ==
    /\ chat.isGenerating ~> ~chat.isGenerating
    /\ [][chat'.pending # chat.pending /\ chat'.pending \ chat.pending # {} =>
            (~chat.isGenerating /\ chat.pending = {})]_vars
    /\ [](chat.isGenerating <=> \E p \in chat.pending : p.kind \in {"article", "quiz"})
    /\ [](Cardinality(chat.pending) <= 1)

\* A quiz or article request failed and isGenerating is false again, the
\* input enabled.
C30_Witness ==
    /\ chat.settled.kind \in {"article", "quiz"}
    /\ ~chat.settled.ok
    /\ ~chat.isGenerating
    /\ chat.pending = {}
    /\ ~InputDisabled

====
